---- MODULE Spec2Model ----
(***************************************************************************)
(* Model of the analysis orchestrator of RepoAgent's .NET support:         *)
(*   - LRUCache and PerformanceOptimizer.cached_parse                      *)
(*     (repo_agent/utils/performance.py)                                   *)
(*   - DotNetParser.parse_file and its backends                            *)
(*     (repo_agent/parsers/dotnet_parser.py, tree_sitter_parser.py,        *)
(*      roslyn_wrapper.py)                                                 *)
(* Three specifications share the variables: SpecCache drives one LRUCache *)
(* through get/put/clear, SpecOpt drives cached_parse, SpecParser drives   *)
(* parse_file one backend invocation at a time.                            *)
(***************************************************************************)
EXTENDS Integers, Sequences, FiniteSets, TLC

VARIABLES
    lru,        \* an LRUCache: the one driven by SpecCache, the optimizer's parse_cache in SpecOpt
    now,        \* time.time(), in whole ticks
    recency,    \* ghost: the stored keys in the order of their latest put or successful get
    lastPut,    \* ghost: stored key -> time of its latest put
    hitSince,   \* ghost: the stored keys that a get hit since their latest put
    lastOp,     \* ghost: the latest cache operation and what it returned
    parser,     \* the DotNetParser's configuration and which wrappers it holds
    file_size,  \* path -> st_size of the file
    parse_cache,    \* DotNetParser._parse_cache: path -> result
    pc,         \* where the running parse_file request stands
    req,        \* the running request: its path and the strategy it runs under
    hybrid,     \* which call of _parse_with_hybrid is pending, "off" outside it
    ts_structure,   \* _parse_with_hybrid's local ts_structure
    invocations,    \* ghost: the backend invocations of this request, in order
    ret,        \* the value parse_file returned
    err,        \* the error parse_file raised
    prev,       \* ghost: how the request before this one ended
    file_cache,     \* PerformanceOptimizer.file_cache
    content_hash,   \* path -> what get_file_content_hash returns for it now
    call,       \* ghost: the latest call through the optimizer
    metrics_history,    \* PerformanceOptimizer.metrics_history
    operation_count,    \* PerformanceOptimizer.config['operation_count']
    measured,   \* ghost: how many measured calls ended so far
    thread,     \* thread -> where it stands in its operation, and its locals
    locks,      \* which thread holds the lock of lru, of file_cache, of the optimizer
    roslyn,     \* the running call into the Roslyn analyzer, its files and how it ended
    disk,       \* the files get_file_content_hash reads and the hashes it returned
    singleton   \* _global_optimizer, _optimizer_lock and the threads in get_global_optimizer

cacheVars == <<lru, now, recency, lastPut, hitSince, lastOp>>

parserVars == <<parser, file_size, parse_cache, pc, req, hybrid, ts_structure,
                invocations, ret, err, prev>>

optVars == <<file_cache, content_hash, call>>

perfVars == <<metrics_history, operation_count, measured>>

threadVars == <<thread, locks>>

roslynVars == <<roslyn>>

hashVars == <<disk>>

globalVars == <<singleton>>

vars == <<cacheVars, parserVars, optVars, perfVars, threadVars, roslynVars, hashVars, globalVars>>

(***************************************************************************)
(* Bounds of the model.                                                    *)
(***************************************************************************)
MaxCap == 2         \* largest max_size an LRUCache is constructed with
MaxTTL == 0         \* largest ttl an LRUCache is constructed with
MaxTime == 1        \* the clock stops ticking here
MaxCount == 2       \* hits + misses stop growing here
MaxInvocations == 6 \* backend invocations of one request stop here
MaxCacheSize == 1   \* largest cache_size a PerformanceOptimizer is constructed with
MaxCalls == 3       \* measured calls stop here
MaxMeasured == 1502 \* measured calls of the long run of SpecHistory stop here
MaxThreadOps == 3   \* cache operations the threads start, all together
MaxGlobalCalls == 2  \* calls of get_global_optimizer a thread makes
MaxParseCalls == 2  \* calls of the decorated parse function the threads make, all together

Keys == {"k1", "k2", "k3"}
Values == {"v1", "v2"}

None == "None"      \* Python's None as a returned or stored value
NoTTL == -1         \* ttl = None: entries never expire
NoKey == "NoKey"

(***************************************************************************)
(* OrderedDict and dict helpers. An OrderedDict is a sequence of           *)
(* [key, value] entries, oldest first, with distinct keys.                 *)
(***************************************************************************)
OdKeys(od) == {od[i].key : i \in 1..Len(od)}

OdIndex(od, key) == CHOOSE i \in 1..Len(od) : od[i].key = key

OdValue(od, key) == od[OdIndex(od, key)].value

\* OrderedDict.pop(key, None)
OdPop(od, key) == SelectSeq(od, LAMBDA e : e.key # key)

\* OrderedDict.__setitem__: a new key goes last, an existing key keeps its place
OdSet(od, key, value) ==
    IF key \in OdKeys(od)
    THEN [od EXCEPT ![OdIndex(od, key)].value = value]
    ELSE Append(od, [key |-> key, value |-> value])

\* dict.pop(key, None)
DictPop(d, key) == [k \in DOMAIN d \ {key} |-> d[k]]

\* dict.__setitem__
DictSet(d, key, v) == [k \in DOMAIN d \cup {key} |-> IF k = key THEN v ELSE d[k]]

\* dict.get(key, default)
DictGet(d, key, default) == IF key \in DOMAIN d THEN d[key] ELSE default

EmptyDict == [k \in {} |-> 0]

(***************************************************************************)
(* LRUCache                                                                *)
(***************************************************************************)
NewLRUCache(max_size, ttl) ==
    [max_size |-> max_size, ttl |-> ttl, cache |-> <<>>,
     timestamps |-> EmptyDict, hits |-> 0, misses |-> 0]

IsExpired_NonStrict(c, key, t) ==
    IF c.ttl = NoTTL THEN FALSE
    ELSE t - DictGet(c.timestamps, key, 0) >= c.ttl

\* LRUCache._is_expired
IsExpired(c, key, t) ==
    IF c.ttl = NoTTL THEN FALSE
    ELSE t - DictGet(c.timestamps, key, 0) > c.ttl

\* the entry goes, its timestamp stays
RemoveKey_KeepsTimestamp(c, key) == [c EXCEPT !.cache = OdPop(@, key)]

\* LRUCache._remove_key
RemoveKey(c, key) ==
    [c EXCEPT !.cache = OdPop(@, key), !.timestamps = DictPop(@, key)]

MoveToEnd_Stay(od, key) == od

\* get's hit path: value = cache.pop(key); cache[key] = value
MoveToEnd(od, key) == OdSet(OdPop(od, key), key, OdValue(od, key))

GetHit_RefreshesTimestamp(c, key, t) ==
    [c EXCEPT !.cache = MoveToEnd(@, key), !.hits = @ + 1,
              !.timestamps = DictSet(@, key, t)]

\* get's hit path: the entry moves to the end, hits += 1, timestamps untouched
GetHit(c, key, t) ==
    [c EXCEPT !.cache = MoveToEnd(@, key), !.hits = @ + 1]

\* a get that reports an expired entry as a miss and leaves it stored
GetCache_KeepsExpired(c, key, t) ==
    IF key \notin OdKeys(c.cache) \/ IsExpired(c, key, t)
    THEN [c EXCEPT !.misses = @ + 1]
    ELSE GetHit(c, key, t)

\* LRUCache.get: the cache after the call
GetCache(c, key, t) ==
    IF key \notin OdKeys(c.cache)
    THEN [c EXCEPT !.misses = @ + 1]
    ELSE IF IsExpired(c, key, t)
    THEN [RemoveKey(c, key) EXCEPT !.misses = @ + 1]
    ELSE GetHit(c, key, t)

\* LRUCache.get: the value returned
GetValue(c, key, t) ==
    IF key \notin OdKeys(c.cache) THEN None
    ELSE IF IsExpired(c, key, t) THEN None
    ELSE OdValue(c.cache, key)

AtCapacity_OffByOne(c) == Len(c.cache) > c.max_size

\* put's test for eviction: len(self.cache) >= self.max_size
AtCapacity(c) == Len(c.cache) >= c.max_size

\* a put that adds an entry whatever the cache holds
PutCache_AddsEntry(c, key, value, t) ==
    [c EXCEPT !.cache = Append(@, [key |-> key, value |-> value]),
              !.timestamps = DictSet(@, key, t)]

\* LRUCache.put
PutCache(c, key, value, t) ==
    LET d == IF key \in OdKeys(c.cache)
             THEN [c EXCEPT !.cache = OdPop(@, key)]
             ELSE IF AtCapacity(c)
             THEN RemoveKey(c, c.cache[1].key)   \* next(iter(self.cache))
             ELSE c
    IN [d EXCEPT !.cache = OdSet(@, key, value),
                 !.timestamps = DictSet(@, key, t)]

\* LRUCache.clear
ClearCache(c) ==
    [c EXCEPT !.cache = <<>>, !.timestamps = EmptyDict, !.hits = 0, !.misses = 0]

\* LRUCache.size
Size(c) == Len(c.cache)

\* LRUCache.hit_rate: hits / (hits + misses), 0.0 without lookups; the
\* quotient is kept as the pair of its terms
HitRate(c) == IF c.hits + c.misses > 0 THEN <<c.hits, c.hits + c.misses>> ELSE <<0, 1>>

\* LRUCache.stats
CacheStats(c) ==
    [size |-> Len(c.cache), max_size |-> c.max_size, hits |-> c.hits,
     misses |-> c.misses, hit_rate |-> HitRate(c)]

(***************************************************************************)
(* Ghost bookkeeping for the cache claims: what a caller who logs its own  *)
(* calls knows, kept for the keys that are still stored.                   *)
(***************************************************************************)
Touch(rec, key) == Append(SelectSeq(rec, LAMBDA k : k # key), key)

Forget(rec, stored) == SelectSeq(rec, LAMBDA k : k \in stored)

Restrict(d, stored) == [k \in DOMAIN d \cap stored |-> d[k]]

\* the stored key whose latest put or successful get is the oldest
LeastRecent(rec) == IF rec = <<>> THEN NoKey ELSE rec[1]

InitOp ==
    [op |-> "init", key |-> NoKey, val |-> None, hit |-> FALSE,
     removed |-> {}, afterPut |-> FALSE, putVal |-> None, hadHit |-> FALSE]

\* a get(key) now directly follows a put(key, v), with no expiry in between
DirectlyAfterPut(key) ==
    /\ lastOp.op = "put"
    /\ lastOp.key = key
    /\ (lru.ttl = NoTTL \/ now - lastPut[key] <= lru.ttl)

(***************************************************************************)
(* DotNetParser                                                            *)
(***************************************************************************)
Paths == {"a.cs"}

roslyn_threshold == 50 * 1024
treesitter_threshold == 500 * 1024

FileSizes == {10, roslyn_threshold - 1, roslyn_threshold, roslyn_threshold + 1,
              treesitter_threshold, treesitter_threshold + 1}

\* AnalysisStrategy
AUTO == "auto"
TREESITTER == "tree-sitter"
ROSLYN == "roslyn"
HYBRID == "hybrid"
AnalysisStrategy == {AUTO, TREESITTER, ROSLYN, HYBRID}

EXTRACTOR == "extractor"

TreeSitterOutcomes_LetsExceptionsOut == {"ok", "none", "raise"}

\* what TreeSitterWrapper.parse_file can do: return a structure, or catch its
\* own failure and return None; it lets no Exception out
TreeSitterOutcomes == {"ok", "none"}

\* what analyze_file_to_json, json.load and _convert_roslyn_result can do
RoslynOutcomes == {"ok", "timeout", "exit_code", "bad_json"}

\* what open/read and extract_from_source can do
ExtractorOutcomes == {"ok", "fail"}

\* the ProjectStructure a backend builds for a file
Structure(backend, path) == [by |-> backend, path |-> path]

\* Python's None where a ProjectStructure is expected
NoStructure == [by |-> None, path |-> None]

NoError == [type |-> "none", reasons |-> <<>>]

Error(type, reasons) == [type |-> type, reasons |-> reasons]

Reason(backend, outcome) == [backend |-> backend, outcome |-> outcome]

NoRequest == [path |-> "none", strategy |-> None]

NoPrev == [path |-> "none", returned |-> FALSE, value |-> NoStructure]

FilePaths == {"a.cs", "b.cs"}

Hashes == {"h1", "h2"}

\* the ghost record of a call that was not made
NoCall == [path |-> None, hash |-> None, invoked |-> FALSE, outcome |-> "none",
           result |-> None, cleared |-> FALSE, expired |-> FALSE,
           again |-> FALSE, first |-> None, mem |-> 0,
           dropped |-> <<0, 0>>, other |-> FALSE, stored |-> FALSE]

Threads == {"t1", "t2"}

NoThread == "none"

\* a thread that has not called anything yet
IdleThread ==
    [pc |-> "idle", op |-> "none", key |-> NoKey, value |-> None, t |-> 0,
     pre |-> NewLRUCache(0, NoTTL), held |-> None, result |-> None, ops |-> 0,
     path |-> None, invoked |-> FALSE, metrics |-> None]

\* threading.RLock() of the LRUCache (lru), of file_cache and of the
\* optimizer: none of them is held
NoLocks == [cache |-> NoThread, file |-> NoThread, history |-> NoThread]

\* the state of the threads while a single caller drives a component
ThreadsIdle ==
    /\ thread = [th \in Threads |-> IdleThread]
    /\ locks = NoLocks

\* no exception
NoExc == [type |-> "none", msg |-> "none"]

\* no run of the analyzer process
NoRun == [kind |-> "none", returncode |-> 0, stdout |-> "none", writes |-> "none"]

\* no call into the Roslyn analyzer has been made
NoRoslynCall ==
    [pc |-> "idle", api |-> "none", fallback |-> FALSE, ts |-> FALSE,
     run |-> NoRun, files |-> {}, content |-> "none", error |-> NoExc,
     outcome |-> "none", target |-> "none", located |-> FALSE, probe |-> "none"]

RoslynIdle == roslyn = NoRoslynCall

\* a run of equal bytes of length len in which the bytes at the offsets in
\* marks differ
Bytes(len, marks) == [len |-> len, marks |-> marks]

\* a path at which no file exists
NoFile == Bytes(-1, {})

\* no digest: Python's None where get_file_content_hash returns a string
NoDigest == <<"none", Bytes(0, {})>>

\* no file exists and no hash was computed
NoDisk ==
    [files |-> [p \in FilePaths |-> NoFile],
     hash |-> [p \in FilePaths |-> NoDigest],
     done |-> {}]

HashIdle == disk = NoDisk

\* a thread outside get_global_optimizer
NoGlobalCall == [pc |-> "idle", got |-> 0, calls |-> 0, made |-> 0]

\* the module as imported: _global_optimizer = None (0),
\* _optimizer_lock = threading.Lock(), no optimizer constructed
NoSingleton ==
    [optimizer |-> 0, lock |-> NoThread, constructed |-> 0,
     th |-> [t \in Threads |-> NoGlobalCall]]

GlobalIdle == singleton = NoSingleton

\* the state of the variables of PerformanceOptimizer while another component
\* is driven
OptIdle ==
    /\ file_cache = NewLRUCache(1, NoTTL)
    /\ content_hash = [p \in FilePaths |-> None]
    /\ call = NoCall

\* no measured call is made while another component is driven
PerfIdle ==
    /\ metrics_history = <<>>
    /\ operation_count = 0
    /\ measured = 0

\* the state of the variables of DotNetParser while another component is driven
ParserIdle ==
    /\ parser = [strategy |-> AUTO, prefer_roslyn_for_large_files |-> FALSE,
                 treesitter_fallback |-> TRUE, enable_caching |-> TRUE,
                 treesitter_wrapper |-> FALSE, roslyn_wrapper |-> FALSE]
    /\ file_size = [p \in Paths |-> 10]
    /\ parse_cache = EmptyDict
    /\ pc = "IDLE"
    /\ req = NoRequest
    /\ hybrid = "off"
    /\ ts_structure = NoStructure
    /\ invocations = <<>>
    /\ ret = NoStructure
    /\ err = NoError
    /\ prev = NoPrev

\* DotNetParser.__init__ and _initialize_parsers: a wrapper is held (TRUE) when
\* its backend could be set up, and is None (FALSE) otherwise
ParserInit ==
    /\ parser \in [strategy : AnalysisStrategy,
                   prefer_roslyn_for_large_files : BOOLEAN,
                   treesitter_fallback : BOOLEAN,
                   enable_caching : BOOLEAN,
                   treesitter_wrapper : BOOLEAN,
                   roslyn_wrapper : BOOLEAN]
    /\ file_size \in [Paths -> FileSizes]
    /\ parse_cache = EmptyDict      \* {} if enable_caching else None
    /\ pc = "IDLE"
    /\ req = NoRequest
    /\ hybrid = "off"
    /\ ts_structure = NoStructure
    /\ invocations = <<>>
    /\ ret = NoStructure
    /\ err = NoError
    /\ prev = NoPrev
    /\ lru = NewLRUCache(1, NoTTL)
    /\ now = 0
    /\ recency = <<>>
    /\ lastPut = EmptyDict
    /\ hitSince = {}
    /\ lastOp = InitOp
    /\ OptIdle
    /\ PerfIdle
    /\ ThreadsIdle
    /\ RoslynIdle
    /\ HashIdle
    /\ GlobalIdle

\* bool(self._parse_cache): None and the empty dict are both falsy
CacheTruthy == parser.enable_caching /\ DOMAIN parse_cache # {}

SelectStrategy_FallsBackAnyway(strategy) ==
    IF strategy = TREESITTER /\ ~parser.treesitter_wrapper
    THEN IF parser.roslyn_wrapper THEN ROSLYN ELSE "raise"
    ELSE IF strategy = ROSLYN /\ ~parser.roslyn_wrapper
    THEN IF parser.treesitter_wrapper THEN TREESITTER ELSE "raise"
    ELSE IF strategy = HYBRID /\ ~(parser.treesitter_wrapper /\ parser.roslyn_wrapper)
    THEN IF parser.roslyn_wrapper THEN ROSLYN ELSE TREESITTER
    ELSE strategy

\* DotNetParser._select_strategy; "raise" stands for its RuntimeError
SelectStrategy(strategy) ==
    IF strategy # AUTO
    THEN IF strategy = TREESITTER /\ ~parser.treesitter_wrapper
         THEN IF parser.treesitter_fallback /\ parser.roslyn_wrapper
              THEN ROSLYN ELSE "raise"
         ELSE IF strategy = ROSLYN /\ ~parser.roslyn_wrapper
         THEN IF parser.treesitter_fallback /\ parser.treesitter_wrapper
              THEN TREESITTER ELSE "raise"
         ELSE IF strategy = HYBRID
                 /\ ~(parser.treesitter_wrapper /\ parser.roslyn_wrapper)
         THEN IF parser.roslyn_wrapper THEN ROSLYN ELSE TREESITTER
         ELSE strategy
    ELSE strategy

ParseAuto_PreferenceFirst(size) ==
    IF size < roslyn_threshold /\ parser.roslyn_wrapper THEN ROSLYN
    ELSE IF parser.prefer_roslyn_for_large_files /\ parser.roslyn_wrapper THEN ROSLYN
    ELSE IF parser.treesitter_wrapper THEN TREESITTER
    ELSE IF parser.roslyn_wrapper THEN ROSLYN
    ELSE EXTRACTOR

ParseAuto_Inclusive(size) ==
    IF size <= roslyn_threshold /\ parser.roslyn_wrapper THEN ROSLYN
    ELSE IF size > treesitter_threshold /\ parser.treesitter_wrapper THEN TREESITTER
    ELSE IF parser.prefer_roslyn_for_large_files /\ parser.roslyn_wrapper THEN ROSLYN
    ELSE IF parser.treesitter_wrapper THEN TREESITTER
    ELSE IF parser.roslyn_wrapper THEN ROSLYN
    ELSE EXTRACTOR

\* DotNetParser._parse_auto: the backend it calls
ParseAuto(size) ==
    IF size < roslyn_threshold /\ parser.roslyn_wrapper THEN ROSLYN
    ELSE IF size > treesitter_threshold /\ parser.treesitter_wrapper THEN TREESITTER
    ELSE IF parser.prefer_roslyn_for_large_files /\ parser.roslyn_wrapper THEN ROSLYN
    ELSE IF parser.treesitter_wrapper THEN TREESITTER
    ELSE IF parser.roslyn_wrapper THEN ROSLYN
    ELSE EXTRACTOR

\* the call a backend name stands for
Try(backend) ==
    IF backend = TREESITTER THEN "TRY_TREESITTER"
    ELSE IF backend = ROSLYN THEN "TRY_ROSLYN"
    ELSE "TRY_EXTRACTOR"

MergeStructures_SecondaryWins(primary, secondary) ==
    [by |-> secondary.by, path |-> secondary.path]

\* DotNetParser._merge_structures: a new structure built of primary's fields,
\* whatever secondary holds
MergeStructures(primary, secondary) == [by |-> primary.by, path |-> primary.path]

\* a control state of the request
Ctl(pc_, hybrid_, ts_, ret_, err_) ==
    [pc |-> pc_, hybrid |-> hybrid_, ts_structure |-> ts_, ret |-> ret_, err |-> err_]

\* the fallback of _parse_with_treesitter's except branch
TreeSitterFallback == IF parser.roslyn_wrapper THEN ROSLYN ELSE EXTRACTOR

\* the analyzer is run once more
RoslynFallback_RunsRoslynAgain == ROSLYN

RoslynFallback_AlwaysTreeSitter == TREESITTER

\* the fallback of _parse_with_roslyn's except branch
RoslynFallback == IF parser.treesitter_wrapper THEN TREESITTER ELSE EXTRACTOR

\* the running call returns value to its caller: parse_file, or the pending
\* call of _parse_with_hybrid
Returned(value) ==
    IF hybrid = "ts"
    THEN IF file_size[req.path] < treesitter_threshold
         THEN Ctl("TRY_ROSLYN", "roslyn", value, NoStructure, NoError)
         ELSE Ctl("DONE", "off", NoStructure, value, NoError)
    ELSE IF hybrid = "roslyn"
    THEN IF value = NoStructure    \* primary.language raises AttributeError
         THEN Ctl("TRY_ROSLYN", "except", NoStructure, NoStructure, NoError)
         ELSE Ctl("DONE", "off", NoStructure,
                  MergeStructures(value, ts_structure), NoError)
    ELSE Ctl("DONE", "off", NoStructure, value, NoError)

\* the running call raises e: _parse_with_hybrid's try catches it, otherwise it
\* leaves parse_file
Raised(e) ==
    IF hybrid \in {"ts", "roslyn"}
    THEN Ctl("TRY_ROSLYN", "except", NoStructure, NoStructure, NoError)
    ELSE Ctl("ALL_FAILED", "off", NoStructure, NoStructure, e)

\* the request moves to control state c; parse_file stores a returned result
\* under `if self._parse_cache:`
Goto(c) ==
    /\ pc' = c.pc
    /\ hybrid' = c.hybrid
    /\ ts_structure' = c.ts_structure
    /\ ret' = c.ret
    /\ err' = c.err
    /\ parse_cache' = IF c.pc = "DONE" /\ CacheTruthy
                      THEN DictSet(parse_cache, req'.path, c.ret)
                      ELSE parse_cache

\* parse_file up to its first backend call: cache lookup, _select_strategy,
\* and the dispatch on the selected strategy
ParseFile(path, strategy) ==
    /\ pc \in {"IDLE", "DONE", "ALL_FAILED"}
    /\ req' = [path |-> path,      \* strategy = strategy or self.strategy
               strategy |-> IF strategy = None THEN parser.strategy ELSE strategy]
    /\ prev' = IF pc = "IDLE" THEN NoPrev
               ELSE [path |-> req.path, returned |-> pc = "DONE", value |-> ret]
    /\ invocations' = <<>>
    /\ LET selected == SelectStrategy(req'.strategy)
       IN IF CacheTruthy /\ path \in DOMAIN parse_cache
          THEN Goto(Ctl("DONE", "off", NoStructure, parse_cache[path], NoError))
          ELSE IF selected = "raise"
          THEN Goto(Ctl("ALL_FAILED", "off", NoStructure, NoStructure,
                        Error("RuntimeError", <<Reason("strategy", "unavailable")>>)))
          ELSE IF selected = HYBRID
          THEN IF ~(parser.treesitter_wrapper /\ parser.roslyn_wrapper)
               THEN Goto(Ctl("TRY_ROSLYN", "off", NoStructure, NoStructure,
                             NoError))
               ELSE Goto(Ctl("TRY_TREESITTER", "ts", NoStructure, NoStructure,
                             NoError))
          ELSE IF selected = AUTO
          THEN Goto(Ctl(Try(ParseAuto(file_size[path])), "off", NoStructure,
                        NoStructure, NoError))
          ELSE Goto(Ctl(Try(selected), "off", NoStructure, NoStructure, NoError))
    /\ UNCHANGED <<parser, file_size, cacheVars, optVars, perfVars, threadVars, roslynVars, hashVars, globalVars>>

\* DotNetParser._parse_with_treesitter: one call of the wrapper
ParseWithTreeSitter ==
    /\ pc = "TRY_TREESITTER"
    /\ UNCHANGED <<parser, file_size, req, prev, cacheVars, optVars, perfVars, threadVars, roslynVars, hashVars, globalVars>>
    /\ IF ~parser.treesitter_wrapper
       THEN /\ invocations' = invocations
            /\ Goto(Raised(Error("RuntimeError",
                                 <<Reason(TREESITTER, "unavailable")>>)))
       ELSE /\ Len(invocations) < MaxInvocations
            /\ \E o \in TreeSitterOutcomes :
                /\ invocations' = Append(invocations, Reason(TREESITTER, o))
                /\ IF o = "ok" THEN Goto(Returned(Structure(TREESITTER, req.path)))
                   ELSE IF o = "none" THEN Goto(Returned(NoStructure))
                   ELSE IF parser.treesitter_fallback
                   THEN Goto(Ctl(Try(TreeSitterFallback), hybrid, ts_structure,
                                 NoStructure, NoError))
                   ELSE Goto(Raised(Error("Exception", <<Reason(TREESITTER, o)>>)))

\* DotNetParser._parse_with_roslyn: one run of the analyzer
ParseWithRoslyn ==
    /\ pc = "TRY_ROSLYN"
    /\ UNCHANGED <<parser, file_size, req, prev, cacheVars, optVars, perfVars, threadVars, roslynVars, hashVars, globalVars>>
    /\ IF ~parser.roslyn_wrapper
       THEN /\ invocations' = invocations
            /\ Goto(Raised(Error("RuntimeError", <<Reason(ROSLYN, "unavailable")>>)))
       ELSE /\ Len(invocations) < MaxInvocations
            /\ \E o \in RoslynOutcomes :
                /\ invocations' = Append(invocations, Reason(ROSLYN, o))
                /\ IF o = "ok" THEN Goto(Returned(Structure(ROSLYN, req.path)))
                   ELSE IF parser.treesitter_fallback
                   THEN Goto(Ctl(Try(RoslynFallback), hybrid, ts_structure,
                                 NoStructure, NoError))
                   ELSE Goto(Raised(Error("Exception", <<Reason(ROSLYN, o)>>)))

\* DotNetParser._parse_with_extractor
ParseWithExtractor ==
    /\ pc = "TRY_EXTRACTOR"
    /\ UNCHANGED <<parser, file_size, req, prev, cacheVars, optVars, perfVars, threadVars, roslynVars, hashVars, globalVars>>
    /\ Len(invocations) < MaxInvocations
    /\ \E o \in ExtractorOutcomes :
        /\ invocations' = Append(invocations, Reason(EXTRACTOR, o))
        /\ IF o = "ok" THEN Goto(Returned(Structure(EXTRACTOR, req.path)))
           ELSE Goto(Raised(Error("RuntimeError", <<Reason(EXTRACTOR, o)>>)))

BackendStep == ParseWithTreeSitter \/ ParseWithRoslyn \/ ParseWithExtractor

ParserNext ==
    \/ \E p \in Paths, s \in AnalysisStrategy \cup {None} : ParseFile(p, s)
    \/ ParseWithTreeSitter
    \/ ParseWithRoslyn
    \/ ParseWithExtractor

SpecParser == ParserInit /\ [][ParserNext]_vars

\* a running call proceeds: parse_file is synchronous and each backend call
\* returns or raises (the analyzer run is cut by its timeout)
FairSpecParser == SpecParser /\ WF_vars(BackendStep)

(***************************************************************************)
(* Claims about DotNetParser.parse_file, checked under SpecParser and      *)
(* FairSpecParser.                                                         *)
(***************************************************************************)
Finished == pc \in {"DONE", "ALL_FAILED"}

Running == pc \in {"TRY_TREESITTER", "TRY_ROSLYN", "TRY_EXTRACTOR"}

\* an invocation that did not produce a structure
Failed(inv) == inv.outcome # "ok"

AllFailed == \A i \in 1..Len(invocations) : Failed(invocations[i])

Tried(backend) == \E i \in 1..Len(invocations) : invocations[i].backend = backend

\* C5: with caching enabled, the second of two successive parse_file calls for
\* the same unmodified file invokes no backend and returns the first call's
\* result.
C5_SecondCallServedFromCache ==
    (/\ pc = "DONE"
     /\ parser.enable_caching
     /\ prev.returned
     /\ prev.value # NoStructure
     /\ prev.path = req.path)
    => (invocations = <<>> /\ ret = prev.value)

\* C7: with fallback enabled, when the first backend invoked fails and the
\* backend after it succeeds, parse_file returns that backend's result and
\* raises nothing.
C7_FallbackReturnsNextResult ==
    (/\ Finished
     /\ parser.treesitter_fallback
     /\ Len(invocations) >= 1
     /\ invocations[1].backend # EXTRACTOR
     /\ Failed(invocations[1])
     /\ \A i \in 2..Len(invocations) : ~Failed(invocations[i]))
    => (/\ pc = "DONE"
        /\ Len(invocations) >= 2
        /\ ret = Structure(invocations[2].backend, req.path))

\* C8: when every backend tried for a request fails, parse_file raises one
\* error that holds the failure reason of each backend tried, in the order
\* tried.
C8_TotalFailureNamesEveryReason ==
    (Finished /\ Len(invocations) >= 1 /\ AllFailed)
    => (pc = "ALL_FAILED" /\ err.reasons = invocations)

\* C9: every parse_file request terminates after finitely many backend
\* invocations: whatever the availability of the backends and however they
\* fail, a running request reaches DONE or ALL_FAILED, and it never comes to
\* the cap on the invocations of one request.
C9_EveryRequestTerminates ==
    /\ Running ~> Finished
    /\ [](Running => Len(invocations) < MaxInvocations)

\* a request ended after Roslyn and tree-sitter, both available, both failed
\* with fallback enabled
C9_Witness ==
    /\ Finished
    /\ parser.treesitter_fallback
    /\ parser.treesitter_wrapper
    /\ parser.roslyn_wrapper
    /\ Len(invocations) >= 2
    /\ AllFailed

\* C10: with fallback permitted, parse_file raises an error only after
\* _parse_with_extractor has been attempted for the request, in every strategy.
C10_ExtractorTriedBeforeFailure ==
    (pc = "ALL_FAILED" /\ parser.treesitter_fallback) => Tried(EXTRACTOR)

\* the wrapper of a backend is held
Available(backend) ==
    IF backend = TREESITTER THEN parser.treesitter_wrapper
    ELSE IF backend = ROSLYN THEN parser.roslyn_wrapper
    ELSE TRUE

\* the request runs under an explicit strategy that names a backend not held
NamesUnavailable == req.strategy \in {TREESITTER, ROSLYN} /\ ~Available(req.strategy)

\* C11: when an explicit strategy names an unavailable backend and fallback is
\* permitted, selection does not fail: the request goes on with another
\* backend, whichever of the other backends are available, and returns the
\* result when that backend succeeds.
C11_UnavailableExplicitFallsBack ==
    (Finished /\ NamesUnavailable /\ parser.treesitter_fallback)
    => /\ invocations # <<>>
       /\ invocations[1].backend # req.strategy
       /\ invocations[1].outcome = "ok"
            => (pc = "DONE" /\ ret = Structure(invocations[1].backend, req.path))

\* C12: when an explicit strategy (tree-sitter or roslyn) names an unavailable
\* backend and fallback is forbidden, parse_file raises an error, invokes no
\* backend and leaves the cache as it was.
C12_UnavailableExplicitFailsFast ==
    [][(/\ ~Running
        /\ req'.strategy \in {TREESITTER, ROSLYN}
        /\ ~Available(req'.strategy)
        /\ ~parser.treesitter_fallback
        /\ <<pc, req, invocations, prev>> # <<pc', req', invocations', prev'>>)
       => (/\ pc' = "ALL_FAILED"
           /\ err'.type = "RuntimeError"
           /\ invocations' = <<>>
           /\ parse_cache' = parse_cache)]_vars

\* tree-sitter was named, is not held, fallback is forbidden and Roslyn is
\* held: the request failed with no invocation
C12_Witness ==
    /\ pc = "ALL_FAILED"
    /\ req.strategy = TREESITTER
    /\ ~parser.treesitter_wrapper
    /\ parser.roslyn_wrapper
    /\ ~parser.treesitter_fallback
    /\ invocations = <<>>

\* C13: parse_file never returns None: a request that returned holds a
\* ProjectStructure, also when the tree-sitter backend failed internally.
C13_NeverReturnsNone == pc = "DONE" => ret # NoStructure

\* the first backend that automatic mode is to invoke, as C14 words it
C14_First ==
    LET size == file_size[req.path]
        preferred ==
            IF size < roslyn_threshold THEN ROSLYN
            ELSE IF size > treesitter_threshold THEN TREESITTER
            ELSE IF parser.prefer_roslyn_for_large_files /\ parser.roslyn_wrapper
            THEN ROSLYN
            ELSE TREESITTER
        other == IF preferred = ROSLYN THEN TREESITTER ELSE ROSLYN
    IN IF Available(preferred) THEN preferred
       ELSE IF Available(other) THEN other
       ELSE EXTRACTOR

AutoDefaultBoth ==
    /\ req.strategy = AUTO
    /\ parser.treesitter_wrapper
    /\ parser.roslyn_wrapper
    /\ ~parser.prefer_roslyn_for_large_files
    /\ invocations # <<>>

\* C15 as stated: in automatic mode with both backends available and default
\* configuration, the backend invoked first for a file one byte above the
\* small-file threshold differs from the one chosen at exactly the threshold.
C15_ThresholdAndOneAboveDiffer ==
    (AutoDefaultBoth /\ file_size[req.path] = roslyn_threshold + 1)
    => invocations[1].backend # ParseAuto(roslyn_threshold)

\* C15 amended: the backend invoked first for a file of exactly the small-file
\* threshold differs from the one chosen one byte below it (Roslyn below,
\* tree-sitter from the threshold on), and the file one byte above the
\* threshold gets the same backend as the file at the threshold.
C15_BoundaryBelowThreshold ==
    /\ (AutoDefaultBoth /\ file_size[req.path] = roslyn_threshold)
        => /\ invocations[1].backend # ParseAuto(roslyn_threshold - 1)
           /\ invocations[1].backend = TREESITTER
    /\ (AutoDefaultBoth /\ file_size[req.path] = roslyn_threshold - 1)
        => invocations[1].backend = ROSLYN
    /\ (AutoDefaultBoth /\ file_size[req.path] = roslyn_threshold + 1)
        => invocations[1].backend = TREESITTER

\* a file of exactly the threshold was parsed in automatic mode
C15_Witness ==
    /\ AutoDefaultBoth
    /\ file_size[req.path] = roslyn_threshold
    /\ Finished

\* C16: with prefer_roslyn_for_large_files set and Roslyn available, automatic
\* mode invokes Roslyn first for a file above the large-file threshold.
C16_LargeFilePrefersRoslyn ==
    (/\ req.strategy = AUTO
     /\ parser.prefer_roslyn_for_large_files
     /\ parser.roslyn_wrapper
     /\ file_size[req.path] > treesitter_threshold
     /\ invocations # <<>>)
    => invocations[1].backend = ROSLYN

\* C17: in hybrid mode with both backends available and succeeding,
\* tree-sitter is invoked first; Roslyn is invoked as well exactly when the
\* file is smaller than the large-file threshold, and then the result holds
\* Roslyn's fields; otherwise the tree-sitter result is returned.
C17_HybridMergePrefersRoslyn ==
    (/\ pc = "DONE"
     /\ req.strategy = HYBRID
     /\ parser.treesitter_wrapper
     /\ parser.roslyn_wrapper
     /\ \A i \in 1..Len(invocations) : invocations[i].outcome = "ok")
    => IF file_size[req.path] < treesitter_threshold
       THEN /\ invocations = <<Reason(TREESITTER, "ok"), Reason(ROSLYN, "ok")>>
            /\ ret = Structure(ROSLYN, req.path)
       ELSE /\ invocations = <<Reason(TREESITTER, "ok")>>
            /\ ret = Structure(TREESITTER, req.path)

\* a hybrid request ran both backends and returned
C17_Witness ==
    /\ pc = "DONE"
    /\ req.strategy = HYBRID
    /\ file_size[req.path] < treesitter_threshold
    /\ invocations = <<Reason(TREESITTER, "ok"), Reason(ROSLYN, "ok")>>

\* the request stands before the call of a backend whose wrapper is absent
AtUnavailable ==
    \/ pc = "TRY_TREESITTER" /\ ~parser.treesitter_wrapper
    \/ pc = "TRY_ROSLYN" /\ ~parser.roslyn_wrapper

\* C18: no unavailable backend is ever invoked; automatic mode never chooses
\* one; an unavailable backend is only reached through an explicit strategy,
\* before any invocation, and the request then fails without running it.
C18_UnavailableNeverInvoked ==
    /\ [](\A i \in 1..Len(invocations) : Available(invocations[i].backend))
    /\ [](AtUnavailable => (req.strategy # AUTO /\ invocations = <<>>))
    /\ [][AtUnavailable => (pc' = "ALL_FAILED" /\ invocations' = <<>>)]_vars

\* hybrid was asked for with no backend held: the tree-sitter call is reached
C18_Witness == AtUnavailable /\ req.strategy = HYBRID

(***************************************************************************)
(* SpecCache: one LRUCache, any sequence of get, put and clear, with the   *)
(* clock advancing in between.                                             *)
(***************************************************************************)
CacheInit ==
    /\ lru \in {NewLRUCache(n, t) : n \in 1..MaxCap, t \in {NoTTL} \cup (0..MaxTTL)}
    /\ now = 0
    /\ recency = <<>>
    /\ lastPut = EmptyDict
    /\ hitSince = {}
    /\ lastOp = InitOp
    /\ ParserIdle
    /\ OptIdle
    /\ PerfIdle
    /\ ThreadsIdle
    /\ RoslynIdle
    /\ HashIdle
    /\ GlobalIdle

Get(key) ==
    /\ lru.hits + lru.misses < MaxCount
    /\ lru' = GetCache(lru, key, now)
    /\ LET v == GetValue(lru, key, now)
           hit == lru'.hits > lru.hits
           stored == OdKeys(lru'.cache)
       IN /\ lastOp' = [InitOp EXCEPT !.op = "get", !.key = key, !.val = v,
                           !.hit = hit,
                           !.removed = OdKeys(lru.cache) \ stored,
                           !.hadHit = key \in hitSince,
                           !.afterPut = DirectlyAfterPut(key),
                           !.putVal = IF DirectlyAfterPut(key) THEN lastOp.val ELSE None]
          /\ recency' = Forget(IF hit THEN Touch(recency, key) ELSE recency, stored)
          /\ hitSince' = (IF hit THEN hitSince \cup {key} ELSE hitSince) \cap stored
          /\ lastPut' = Restrict(lastPut, stored)
    /\ UNCHANGED <<now, parserVars, optVars, perfVars, threadVars, roslynVars, hashVars, globalVars>>

Put(key, value) ==
    /\ lru' = PutCache(lru, key, value, now)
    /\ LET stored == OdKeys(lru'.cache)
       IN /\ lastOp' = [InitOp EXCEPT !.op = "put", !.key = key, !.val = value,
                           !.removed = OdKeys(lru.cache) \ stored]
          /\ recency' = Forget(Touch(recency, key), stored)
          /\ lastPut' = Restrict(DictSet(lastPut, key, now), stored)
          /\ hitSince' = (hitSince \ {key}) \cap stored
    /\ UNCHANGED <<now, parserVars, optVars, perfVars, threadVars, roslynVars, hashVars, globalVars>>

Clear ==
    /\ lru' = ClearCache(lru)
    /\ lastOp' = [InitOp EXCEPT !.op = "clear", !.removed = OdKeys(lru.cache)]
    /\ recency' = <<>>
    /\ lastPut' = EmptyDict
    /\ hitSince' = {}
    /\ UNCHANGED <<now, parserVars, optVars, perfVars, threadVars, roslynVars, hashVars, globalVars>>

Tick ==
    /\ now < MaxTime
    /\ now' = now + 1
    /\ UNCHANGED <<lru, recency, lastPut, hitSince, lastOp, parserVars, optVars, perfVars, threadVars,
                   roslynVars, hashVars, globalVars>>

CacheNext ==
    \/ \E k \in Keys : Get(k)
    \/ \E k \in Keys, v \in Values : Put(k, v)
    \/ Clear
    \/ Tick

SpecCache == CacheInit /\ [][CacheNext]_vars

(***************************************************************************)
(* Claims about LRUCache, checked under SpecCache.                         *)
(***************************************************************************)

\* C1: with max_size N >= 1, after any sequence of get, put and clear the
\* number of stored entries is at most N.
C1_SizeAtMostMax == Len(lru.cache) <= lru.max_size

\* a put into a full cache has just evicted an entry
C1_Witness ==
    /\ lastOp.op = "put"
    /\ lastOp.removed # {}
    /\ Len(lru.cache) = lru.max_size

\* C2: a put of a new key into a full cache evicts exactly one entry, the one
\* whose latest put or successful get is the oldest, and the cache then holds
\* exactly max_size entries, the new key among them.
C2_EvictsLeastRecentlyUsed ==
    [][\A k \in Keys, v \in Values :
          (k \notin OdKeys(lru.cache) /\ Len(lru.cache) = lru.max_size /\ Put(k, v))
          => /\ OdKeys(lru.cache) \ OdKeys(lru'.cache) = {LeastRecent(recency)}
             /\ Len(lru'.cache) = lru.max_size
             /\ k \in OdKeys(lru'.cache)]_vars

\* a put has evicted an entry while an entry that a get had hit stayed
C2_Witness ==
    /\ lastOp.op = "put"
    /\ Cardinality(lastOp.removed) = 1
    /\ hitSince # {}
    /\ Len(lru.cache) = lru.max_size

\* C3: put(k, v) directly followed by get(k), with no expiry in between,
\* returns v and counts as a hit.
C3_GetAfterPutReturnsValue ==
    (lastOp.op = "get" /\ lastOp.afterPut)
    => (lastOp.val = lastOp.putVal /\ lastOp.hit /\ lastOp.val \in Values)

\* get(k) directly after put(k, v) returned a value on a cache with a TTL
C3_Witness ==
    /\ lastOp.op = "get"
    /\ lastOp.afterPut
    /\ lastOp.hit
    /\ lru.ttl # NoTTL

\* C4: with a TTL t, get(k) returns None once more than t has elapsed since
\* the latest put(k), however many get(k) hit in between; a hit moves the
\* entry to the most recent place and leaves its timestamp at the put's time.
C4_ExpiryCountsFromLastPut ==
    [][\A k \in Keys :
          /\ (lru.ttl # NoTTL /\ k \in DOMAIN lastPut
                 /\ now - lastPut[k] > lru.ttl /\ Get(k))
             => (lastOp'.val = None /\ ~lastOp'.hit /\ k \notin OdKeys(lru'.cache))
          /\ (lastOp'.hit /\ lastOp'.key = k /\ Get(k))
             => /\ lru'.timestamps[k] = lastPut[k]
                /\ lru'.cache[Len(lru'.cache)].key = k]_vars

\* a get found its key expired although an earlier get had hit it
C4_Witness ==
    /\ lastOp.op = "get"
    /\ lastOp.val = None
    /\ lastOp.removed = {lastOp.key}
    /\ lastOp.hadHit

\* the stored keys whose time to live is over
ExpiredKeys == {k \in OdKeys(lru.cache) : IsExpired(lru, k, now)}

\* C35: expired entries are purged lazily.  A get of an expired key removes
\* that entry, so that the size goes down by one, and counts as a miss; an
\* expired entry that is not read stays stored and is counted by size(), and
\* it leaves the cache only by a get of its key, by a clear, or by being the
\* least recently used entry when a put of a new key finds the cache full.
C35_ExpiredPurgedOnlyOnRead ==
    [][\A k \in ExpiredKeys :
          /\ Get(k) => /\ Size(lru') = Size(lru) - 1
                       /\ k \notin OdKeys(lru'.cache)
                       /\ lru'.misses = lru.misses + 1
                       /\ lru'.hits = lru.hits
                       /\ lastOp'.val = None
          /\ \/ k \in OdKeys(lru'.cache) /\ Size(lru') >= 1
             \/ lastOp'.op = "get" /\ lastOp'.key = k
             \/ lastOp'.op = "clear"
             \/ /\ lastOp'.op = "put"
                /\ lastOp'.key \notin OdKeys(lru.cache)
                /\ Size(lru) = lru.max_size
                /\ k = LeastRecent(recency)]_vars

\* a get has just removed its expired key while another expired entry, not
\* read, is still stored
C35_Witness ==
    /\ lastOp.op = "get"
    /\ lastOp.val = None
    /\ lastOp.removed = {lastOp.key}
    /\ ExpiredKeys # {}

\* C40: in every reachable state of an LRUCache the keys that have a timestamp
\* are exactly the stored keys, after any sequence of get (hit, miss or
\* expiry), put (of a new or a stored key, with or without eviction) and clear.
C40_TimestampsMatchStoredKeys == DOMAIN lru.timestamps = OdKeys(lru.cache)

\* a put into a full cache has just evicted an entry and the cache holds
\* timestamps for the keys that stayed
C40_Witness ==
    /\ lastOp.op = "put"
    /\ lastOp.removed # {}
    /\ lastOp.key \notin lastOp.removed
    /\ Cardinality(DOMAIN lru.timestamps) = lru.max_size
    /\ lru.max_size > 1

(***************************************************************************)
(* SpecOpt: one PerformanceOptimizer, called through the wrapper that      *)
(* cached_operation('parse') builds.  lru is the optimizer's parse_cache.  *)
(***************************************************************************)
max_memory_usage_mb == 1024

\* what memory_monitor.get_memory_mb() can report, around the limit
MemoryLevels == {max_memory_usage_mb, max_memory_usage_mb + 1}

MemoryPressure_AtCeiling(mem) == mem >= max_memory_usage_mb

\* cached_parse's check: get_memory_mb() > config['max_memory_usage_mb']
MemoryPressure(mem) == mem > max_memory_usage_mb

\* what parse_func can do: return a result or None, or raise
ParseResults == {"r1", "r2"}

ParseOutcomes == ParseResults \cup {None, "raise"}

\* hashlib.md5(...).hexdigest(): equal digests for equal inputs only
Md5(text) == <<"md5", text>>

\* a key made of the path as well
GetCacheKey_WithPath(file_path, hash) ==
    IF hash = None THEN Md5(<<file_path, "mtime">>) ELSE Md5(<<file_path, hash>>)

\* PerformanceOptimizer.get_cache_key: the digest of the content hash alone;
\* without a content hash the key is made of the path and its mtime
GetCacheKey(file_path, hash) ==
    IF hash = None THEN Md5(<<file_path, "mtime">>) ELSE Md5(hash)

\* PerformanceOptimizer.__init__
OptInit ==
    /\ \E cache_size \in 1..MaxCacheSize, cache_ttl \in {NoTTL} \cup (0..MaxTTL) :
        /\ file_cache = NewLRUCache(cache_size, cache_ttl)
        /\ lru = NewLRUCache(cache_size * 2, cache_ttl)
    /\ content_hash \in [FilePaths -> Hashes \cup {None}]
    /\ call = NoCall
    /\ now = 0
    /\ recency = <<>>
    /\ lastPut = EmptyDict
    /\ hitSince = {}
    /\ lastOp = InitOp
    /\ ParserIdle
    /\ PerfIdle
    /\ ThreadsIdle
    /\ RoslynIdle
    /\ HashIdle
    /\ GlobalIdle

\* every result is stored
IsNotNone_StoresNone(result) == TRUE

\* cached_parse's test before the put: result is not None
IsNotNone(result) == result # None

\* the latest call was for another path with this content hash and returned a
\* result
OtherPath(file_path, hash) ==
    /\ call.path \notin {None, file_path}
    /\ hash # None
    /\ call.hash = hash
    /\ call.outcome = "returned"
    /\ call.result # None

\* the latest call was for file_path with this content hash and returned a result
Again(file_path, hash) ==
    /\ call.path = file_path
    /\ call.hash = hash
    /\ call.outcome = "returned"
    /\ call.result # None

\* PerformanceOptimizer.cached_parse(file_path, parse_func).  The ghost call
\* records what the caller saw; again says that the call before it was for the
\* same path with the same content hash and returned a result, first
\* |-> that result; mem is the memory reading of the call, dropped the number
\* of entries its memory check removed from file_cache and from parse_cache;
\* other says that the call before it was for another path with the same
\* content hash and returned a result (first |-> that result), stored that
\* the call put its result into parse_cache.
CachedParse(file_path) ==
    \E mem \in MemoryLevels :
        LET pressure == MemoryPressure(mem)
            pcache == IF pressure THEN ClearCache(lru) ELSE lru
            hash == content_hash[file_path]
            cache_key == GetCacheKey(file_path, hash)
            result == GetValue(pcache, cache_key, now)
            looked == GetCache(pcache, cache_key, now)
            hit == hash # None /\ result # None
        IN /\ hash # None => pcache.hits + pcache.misses < MaxCount
           /\ file_cache' = IF pressure THEN ClearCache(file_cache) ELSE file_cache
           /\ \E out \in IF hit THEN {result} ELSE ParseOutcomes :
                /\ lru' = IF hash = None THEN pcache
                          ELSE IF hit THEN looked
                          ELSE IF out # "raise" /\ IsNotNone(out)
                          THEN PutCache(looked, cache_key, out, now)
                          ELSE looked
                /\ call' = [path |-> file_path, hash |-> hash,
                            invoked |-> ~hit,
                            outcome |-> IF out = "raise" THEN "raised"
                                        ELSE "returned",
                            result |-> IF out = "raise" THEN None ELSE out,
                            cleared |-> pressure,
                            expired |-> /\ hash # None
                                        /\ cache_key \in OdKeys(pcache.cache)
                                        /\ IsExpired(pcache, cache_key, now),
                            again |-> Again(file_path, hash),
                            first |-> IF Again(file_path, hash) \/ OtherPath(file_path, hash)
                                      THEN call.result ELSE None,
                            other |-> OtherPath(file_path, hash),
                            stored |-> hash # None /\ ~hit /\ out # "raise" /\ IsNotNone(out),
                            mem |-> mem,
                            dropped |-> IF pressure
                                        THEN <<Len(file_cache.cache), Len(lru.cache)>>
                                        ELSE <<0, 0>>]
           /\ UNCHANGED <<now, recency, lastPut, hitSince, lastOp, content_hash,
                          parserVars, perfVars, threadVars, roslynVars, hashVars, globalVars>>

\* the wrapper of cached_operation('parse'), called with the positional
\* arguments args: its signature is wrapper(self, file_path, *args, **kwargs)
CachedOperation(args) ==
    IF Len(args) < 2
    THEN /\ call' = [NoCall EXCEPT !.path = args[1], !.outcome = "TypeError"]
         /\ UNCHANGED <<cacheVars, parserVars, file_cache, content_hash, perfVars, threadVars, roslynVars, hashVars, globalVars>>
    ELSE CachedParse(args[2])

\* a client keeps something about a file in the optimizer's file_cache:
\* optimizer.file_cache.put(file_path, hash)
FileCachePut(file_path) ==
    /\ content_hash[file_path] # None
    /\ file_cache' = PutCache(file_cache, file_path, content_hash[file_path], now)
    /\ file_cache' # file_cache
    /\ UNCHANGED <<cacheVars, parserVars, content_hash, call, perfVars, threadVars, roslynVars, hashVars, globalVars>>

\* the file at path is written, removed or created
ModifyFile(file_path, hash) ==
    /\ content_hash[file_path] # hash
    /\ content_hash' = [content_hash EXCEPT ![file_path] = hash]
    /\ UNCHANGED <<cacheVars, parserVars, file_cache, call, perfVars, threadVars, roslynVars, hashVars, globalVars>>

OptNext ==
    \/ \E p \in FilePaths : CachedOperation(<<"self", p>>) \/ CachedOperation(<<p>>)
    \/ \E p \in FilePaths, h \in Hashes \cup {None} : ModifyFile(p, h)
    \/ Tick

SpecOpt == OptInit /\ [][OptNext]_vars

(***************************************************************************)
(* SpecPressure: cached_parse called directly on an optimizer whose        *)
(* file_cache a client fills, for two files that are not modified; the     *)
(* second one may hold what the first one holds, or be unreadable.         *)
(***************************************************************************)
PressureInit ==
    /\ OptInit
    /\ content_hash["a.cs"] = "h1"
    /\ content_hash["b.cs"] \in {"h1", "h2", None}

PressureNext ==
    \/ \E p \in FilePaths : CachedParse(p)
    \/ \E p \in FilePaths : FileCachePut(p)
    \/ Tick

SpecPressure == PressureInit /\ [][PressureNext]_vars

(***************************************************************************)
(* Claims about cached_operation and cached_parse, checked under SpecOpt   *)
(* and SpecPressure.                                                       *)
(***************************************************************************)

\* C6: when a function wrapped with cached_operation('parse') is called twice
\* in a row with the same file path, with no cache clear, no TTL expiry and no
\* file change in between, the second call returns the first call's result and
\* does not invoke the function, whatever the path.
C6_SecondCallNotInvoked ==
    (call.again /\ ~call.cleared /\ ~call.expired)
    => (/\ ~call.invoked
        /\ call.outcome = "returned"
        /\ call.result = call.first)

\* C37: the cache key of cached_parse depends on the content fingerprint of the
\* file only, not on its path: when a call for one path has returned a result
\* that is stored, the next call, for another path with the same fingerprint,
\* returns that result and does not invoke its parse function (no clear under
\* memory pressure and no expiry coming in between).
C37_KeyIsFingerprintOnly ==
    (call.other /\ ~call.cleared /\ ~call.expired)
    => (/\ ~call.invoked
        /\ call.outcome = "returned"
        /\ call.result = call.first)

\* b.cs, which holds what a.cs holds, was served the result stored for a.cs
C37_Witness ==
    /\ call.other
    /\ call.path = "b.cs"
    /\ content_hash["a.cs"] = content_hash["b.cs"]
    /\ ~call.invoked
    /\ call.result \in ParseResults

\* the values stored in parse_cache
StoredValues == {lru.cache[i].value : i \in 1..Len(lru.cache)}

\* C38: cached_parse never stores a None result.  No entry of parse_cache
\* holds None; a call whose parse function returns None puts nothing into the
\* cache; and the next call for the same file, not modified, invokes the parse
\* function again.
C38_NoneNeverStored ==
    /\ [](None \notin StoredValues)
    /\ []((call.invoked /\ call.outcome = "returned" /\ call.result = None)
           => ~call.stored)
    /\ [][\A p \in FilePaths :
            (/\ call.path = p
             /\ call.hash = content_hash[p]
             /\ call.outcome = "returned"
             /\ call.result = None
             /\ CachedParse(p))
            => call'.invoked]_vars

\* the parse function of a readable file returned None twice in a row: the
\* second call invoked it again and the cache holds no entry
C38_Witness ==
    /\ call.path = "a.cs"
    /\ call.hash # None
    /\ call.invoked
    /\ call.outcome = "returned"
    /\ call.result = None
    /\ lru.misses >= 2
    /\ lru.cache = <<>>

\* the length of metrics_history[-20:]
recent_window == 20

\* PerformanceOptimizer.get_performance_stats, called while the process uses
\* reading MB.  memory_stats holds that reading and the monitor's peak and
\* measurement count, which only measure_performance and record_measurement
\* change; the averages over the recent metrics are added only when the
\* history is not empty, and are functions of the history.
GetPerformanceStats(reading) ==
    [cache_stats |-> [file_cache |-> CacheStats(file_cache),
                      parse_cache |-> CacheStats(lru)],
     memory_stats |-> [current_mb |-> reading],
     recent_operations |-> IF Len(metrics_history) < recent_window
                           THEN Len(metrics_history) ELSE recent_window,
     total_operations |-> Len(metrics_history),
     recent_metrics |-> SubSeq(metrics_history,
                               IF Len(metrics_history) < recent_window
                               THEN 1 ELSE Len(metrics_history) - recent_window + 1,
                               Len(metrics_history))]

\* C24: every cache clear that memory pressure triggers is recorded in state
\* that the statistics expose, also when the caches were empty and had counted
\* no hit or miss.  Checked for the first call on a new optimizer: if that
\* call clears the caches under pressure, get_performance_stats does not
\* return afterwards what it returned before, whatever the memory reading at
\* the time of the query.
C24_PressureClearShowsInStats ==
    [][(call = NoCall /\ call'.cleared) =>
         \A reading \in MemoryLevels :
             GetPerformanceStats(reading)' # GetPerformanceStats(reading)]_vars

\* the entry of parse_cache that a cached_parse call for this path and hash
\* looks up
LookedUp(c) == GetCacheKey(c.path, c.hash)

\* C23: a cached_parse call entered with resident memory above
\* max_memory_usage_mb empties file_cache and parse_cache before its lookup, so
\* it is a miss and invokes the parse function; entered with memory at or below
\* the ceiling it leaves file_cache as it is and parse_cache loses no entry but
\* the looked-up one when that has expired and the one a full cache evicts for
\* the new result.
C23_PressureClearsBeforeLookup ==
    [][(call' # call /\ call'.outcome # "TypeError") =>
         LET lost == OdKeys(lru.cache) \ OdKeys(lru'.cache)
         IN IF call'.mem > max_memory_usage_mb
            THEN /\ call'.invoked
                 /\ file_cache'.cache = <<>>
                 /\ OdKeys(lru'.cache) \subseteq {LookedUp(call')}
                 /\ lru'.hits = 0
                 /\ call'.hash # None => lru'.misses = 1
            ELSE /\ file_cache' = file_cache
                 /\ \A k \in lost :
                       \/ k = LookedUp(call') /\ IsExpired(lru, k, now)
                       \/ /\ Len(lru'.cache) = lru.max_size
                          /\ lru'.cache[Len(lru'.cache)].key = LookedUp(call')
                          /\ call'.invoked]_vars

\* a call under pressure found both caches filled, among them the entry it
\* asked for, and emptied them
C23_Witness ==
    /\ call.cleared
    /\ call.again
    /\ call.invoked
    /\ call.hash # None
    /\ call.dropped[1] > 0
    /\ call.dropped[2] > 0
    /\ file_cache.cache = <<>>
    /\ lru.misses = 1

(***************************************************************************)
(* SpecPerf: the measured calls of one PerformanceOptimizer, made with the *)
(* measure_performance context manager or through the performance_monitor *)
(* decorator.  A metric is a PerformanceMetrics object; its memory         *)
(* readings are left out.  The ghost fields of a metric say how the call   *)
(* was made (via), whether its body raised, and how often finish ran.      *)
(***************************************************************************)
history_limit == 1000

history_keep == 500

gc_frequency == 100

\* end_time and duration of a metric before finish: None
NoTime == -1

\* how long a measured body runs, in ticks
Durations == {0, 1}

\* what the decorated function's result counts as items: len(result), or 1
ItemCounts == {1, 2}

\* how a measured body ends: it returns, raises an exception of class
\* Exception, or raises one outside it (KeyboardInterrupt, SystemExit)
BodyOutcomes == {"returns", "Exception", "BaseException"}

\* except Exception: the classes the handler catches
CaughtByExceptException(outcome) == outcome = "Exception"

\* PerformanceMetrics(operation_name): start_time = time.time()
NewMetrics(via, t) ==
    [start_time |-> t, end_time |-> NoTime, duration |-> NoTime,
     items_processed |-> 0, success |-> TRUE, error_message |-> None,
     via |-> via, raised |-> FALSE, finishes |-> 0,
     serial |-> measured + 1, propagated |-> None]

\* PerformanceMetrics.finish
Finish(m, items_processed, success, error_message, t) ==
    [m EXCEPT !.end_time = t, !.duration = t - m.start_time,
              !.items_processed = items_processed, !.success = success,
              !.error_message = error_message, !.finishes = @ + 1]

\* the history cut one entry at a time
Record_DropsOldestOnly(history, m) ==
    LET h == Append(history, m)
    IN IF Len(h) > history_limit THEN Tail(h) ELSE h

\* measure_performance's finally block: the metric joins the history, which is
\* cut to its latest entries once it is longer than the limit
Record(history, m) ==
    LET h == Append(history, m)
    IN IF Len(h) > history_limit
       THEN SubSeq(h, Len(h) - history_keep + 1, Len(h))
       ELSE h

\* PerformanceOptimizer._maybe_gc
MaybeGc(count) == IF count + 1 >= gc_frequency THEN 0 ELSE count + 1

\* measure_performance after the body that ran under it ended at time t: the
\* except branch finishes the metric of a body whose exception it catches and
\* raises it again, the finally block records the metric; an exception the
\* branch does not catch leaves through the finally block as it is
Measured(m, outcome, t) ==
    /\ metrics_history' =
         Record(metrics_history,
                LET left == [m EXCEPT !.raised = (outcome # "returns"),
                                      !.propagated = IF outcome = "returns"
                                                     THEN None ELSE outcome]
                IN IF CaughtByExceptException(outcome)
                   THEN Finish(left, 0, FALSE, "e", t)
                   ELSE left)
    /\ operation_count' = MaybeGc(operation_count)
    /\ measured' = measured + 1
    /\ now' = t

\* with optimizer.measure_performance(name) as metrics: body -- the body runs
\* for d ticks, calls metrics.finish itself or not, then returns or raises
MeasurePerformance(d, calls_finish, outcome) ==
    /\ now + d <= MaxTime
    /\ LET m == NewMetrics("context", now)
           body == IF calls_finish THEN Finish(m, 1, TRUE, None, now + d) ELSE m
       IN Measured(body, outcome, now + d)
    /\ UNCHANGED <<lru, recency, lastPut, hitSince, lastOp, parserVars, optVars,
                   threadVars, roslynVars, hashVars, globalVars>>

\* the wrapper of performance_monitor(name): func returns a result of items
\* items after d ticks, or raises
PerformanceMonitor(d, items, outcome) ==
    /\ now + d <= MaxTime
    /\ LET m == NewMetrics("decorator", now)
           body == IF outcome = "returns" THEN Finish(m, items, TRUE, None, now + d)
                   ELSE IF CaughtByExceptException(outcome)
                        THEN Finish(m, 0, FALSE, "e", now + d)
                        ELSE m
       IN Measured(body, outcome, now + d)
    /\ UNCHANGED <<lru, recency, lastPut, hitSince, lastOp, parserVars, optVars,
                   threadVars, roslynVars, hashVars, globalVars>>

\* PerformanceOptimizer.__init__: no metric yet
PerfInit ==
    /\ metrics_history = <<>>
    /\ operation_count = 0
    /\ measured = 0
    /\ lru = NewLRUCache(1, NoTTL)
    /\ now = 0
    /\ recency = <<>>
    /\ lastPut = EmptyDict
    /\ hitSince = {}
    /\ lastOp = InitOp
    /\ ParserIdle
    /\ OptIdle
    /\ ThreadsIdle
    /\ RoslynIdle
    /\ HashIdle
    /\ GlobalIdle

PerfNext ==
    /\ measured < MaxCalls
    /\ \/ \E d \in Durations, f \in BOOLEAN, o \in BodyOutcomes :
             MeasurePerformance(d, f, o)
       \/ \E d \in Durations, n \in ItemCounts, o \in BodyOutcomes :
             PerformanceMonitor(d, n, o)

SpecPerf == PerfInit /\ [][PerfNext]_vars

(***************************************************************************)
(* SpecHistory: one optimizer through a long run of measured calls, each   *)
(* made with the context manager around a body that returns at once: long  *)
(* enough for the history to pass its limit twice.                         *)
(***************************************************************************)
HistoryNext ==
    /\ measured < MaxMeasured
    /\ MeasurePerformance(0, FALSE, "returns")

SpecHistory == PerfInit /\ [][HistoryNext]_vars

(***************************************************************************)
(* Claims about the measured calls, checked under SpecPerf.                *)
(***************************************************************************)

\* C19: for every call measured through the decorator or the context manager,
\* PerformanceMetrics.finish runs exactly once, whether the body returns or
\* raises.
C19_FinishExactlyOnce ==
    \A i \in 1..Len(metrics_history) : metrics_history[i].finishes = 1

\* C20: every metric in metrics_history is finalized: its end_time is set and
\* is not before its start_time, however the measured calls were made.
C20_HistoryIsFinalized ==
    \A i \in 1..Len(metrics_history) :
        /\ metrics_history[i].end_time # NoTime
        /\ metrics_history[i].end_time >= metrics_history[i].start_time

\* C21: each measured call adds exactly one metric to the history; that metric
\* has success = false and carries the error message exactly when the body
\* raised, and the exception the body raised is the one that reaches the caller.
C21_FailureRecordedIffRaised ==
    /\ Len(metrics_history) = measured
    /\ \A i \in 1..Len(metrics_history) :
          LET m == metrics_history[i]
          IN /\ m.serial = i
             /\ (~m.success /\ m.error_message # None) <=> m.raised
             /\ m.raised <=> (m.propagated # None)

(***************************************************************************)
(* Claims about the size of the history, checked under SpecHistory.        *)
(***************************************************************************)

\* C22: after any number of measured calls metrics_history holds at most 1000
\* entries; the append that would make it 1001 cuts it in that one step to the
\* 500 most recent entries, in their original order, and every other append
\* makes it one longer.
C22_HistoryCappedAndCutInBulk ==
    /\ [](Len(metrics_history) <= history_limit)
    /\ [][measured' = measured + 1 =>
            IF Len(metrics_history) = history_limit
            THEN /\ Len(metrics_history') = history_keep
                 /\ \A i \in 1..history_keep :
                       metrics_history'[i].serial = measured' - history_keep + i
                 /\ \A i \in 1..(history_keep - 1) :
                       metrics_history'[i] =
                           metrics_history[history_limit - history_keep + 1 + i]
            ELSE /\ Len(metrics_history') = Len(metrics_history) + 1
                 /\ SubSeq(metrics_history', 1, Len(metrics_history)) = metrics_history]_vars

\* the history just after its second cut
C22_Witness ==
    /\ measured = 2 * history_limit - history_keep + 2
    /\ Len(metrics_history) = history_keep
    /\ metrics_history[1].serial = measured - history_keep + 1

(***************************************************************************)
(* SpecThreads: the threads of Threads call get, put, clear, size and      *)
(* stats on one LRUCache, lru.  An operation is a sequence of steps, one   *)
(* per statement of its body, between acquiring and releasing the cache's  *)
(* lock (with self.lock); the threads' steps interleave freely, a thread   *)
(* that calls while another holds the lock waits, and the clock may tick   *)
(* between any two steps.  A thread's locals: key and value are the        *)
(* arguments, t the time it read, held the value or key it took out of the *)
(* dictionary, result what it returns, pre (ghost) the cache as it was     *)
(* when the thread got the lock.                                           *)
(***************************************************************************)
ThreadKeys == {"k1", "k2"}

ThreadValues == {"v1"}

CacheOps == {"get", "put", "clear", "size", "stats"}

\* a lock that lets every thread in
CanAcquire_Unlocked(owner, th) == TRUE

\* RLock.acquire: free, or held by the calling thread itself
CanAcquire(owner, th) == owner \in {NoThread, th}

\* the thread moves on to statement p with the locals in changes
Advance(th, p, changes) ==
    thread' = [thread EXCEPT ![th] = [changes EXCEPT !.pc = p]]

RECURSIVE SumOps(_)
SumOps(ths) ==
    IF ths = {} THEN 0
    ELSE LET th == CHOOSE x \in ths : TRUE
         IN thread[th].ops + SumOps(ths \ {th})

\* ghost: the operations started so far
Started == SumOps(Threads)

\* a thread calls an operation of the cache and enters its with self.lock
\* block; a thread that finds the lock held by another waits
Call(th, op, key, value) ==
    /\ thread[th].pc = "idle"
    /\ Started < MaxThreadOps
    /\ CanAcquire(locks.cache, th)
    /\ locks' = [locks EXCEPT !.cache = th]
    /\ Advance(th, op, [thread[th] EXCEPT !.op = op, !.key = key, !.value = value,
                                          !.pre = lru, !.ops = @ + 1])
    /\ UNCHANGED <<cacheVars, parserVars, optVars, perfVars, roslynVars, hashVars, globalVars>>

\* with self.lock: left, the operation returns
ReleaseLock(th) ==
    /\ thread[th].pc = "release"
    /\ locks' = [locks EXCEPT !.cache = NoThread]
    /\ Advance(th, "idle", [IdleThread EXCEPT !.ops = thread[th].ops])
    /\ UNCHANGED <<cacheVars, parserVars, optVars, perfVars, roslynVars, hashVars, globalVars>>

\* one statement of LRUCache.get
GetStep(th) ==
    LET me == thread[th]
        key == me.key
    IN /\ \/ /\ me.pc = "get"      \* if key not in self.cache / if self._is_expired(key)
             /\ lru' = lru
             /\ IF key \notin OdKeys(lru.cache)
                THEN Advance(th, "get_miss", me)
                ELSE Advance(th, IF IsExpired(lru, key, now)
                                 THEN "get_remove" ELSE "get_pop",
                             [me EXCEPT !.t = now])
          \/ /\ me.pc = "get_remove"       \* _remove_key: self.cache.pop(key, None)
             /\ lru' = [lru EXCEPT !.cache = OdPop(@, key)]
             /\ Advance(th, "get_remove_ts", me)
          \/ /\ me.pc = "get_remove_ts"    \* _remove_key: self.timestamps.pop(key, None)
             /\ lru' = [lru EXCEPT !.timestamps = DictPop(@, key)]
             /\ Advance(th, "get_miss", me)
          \/ /\ me.pc = "get_miss"         \* self.misses += 1; return None
             /\ lru' = [lru EXCEPT !.misses = @ + 1]
             /\ Advance(th, "release", [me EXCEPT !.result = None])
          \/ /\ me.pc = "get_pop"          \* value = self.cache.pop(key)
             /\ IF key \in OdKeys(lru.cache)
                THEN /\ lru' = [lru EXCEPT !.cache = OdPop(@, key)]
                     /\ Advance(th, "get_set", [me EXCEPT !.held = OdValue(lru.cache, key)])
                ELSE /\ lru' = lru
                     /\ Advance(th, "release", [me EXCEPT !.result = "KeyError"])
          \/ /\ me.pc = "get_set"          \* self.cache[key] = value
             /\ lru' = [lru EXCEPT !.cache = OdSet(@, key, me.held)]
             /\ Advance(th, "get_hit", me)
          \/ /\ me.pc = "get_hit"          \* self.hits += 1; return value
             /\ lru' = [lru EXCEPT !.hits = @ + 1]
             /\ Advance(th, "release", [me EXCEPT !.result = me.held])
       /\ UNCHANGED <<now, recency, lastPut, hitSince, lastOp, locks,
                      parserVars, optVars, perfVars, roslynVars, hashVars, globalVars>>

\* one statement of LRUCache.put
PutStep(th) ==
    LET me == thread[th]
        key == me.key
    IN /\ \/ /\ me.pc = "put"      \* if key in self.cache / elif len(self.cache) >= self.max_size
             /\ lru' = lru
             /\ IF key \in OdKeys(lru.cache)
                THEN Advance(th, "put_pop", me)
                ELSE IF AtCapacity(lru) /\ lru.cache # <<>>
                THEN Advance(th, "put_evict",      \* oldest_key = next(iter(self.cache))
                             [me EXCEPT !.held = lru.cache[1].key])
                ELSE Advance(th, "put_set", me)
          \/ /\ me.pc = "put_pop"          \* self.cache.pop(key)
             /\ IF key \in OdKeys(lru.cache)
                THEN /\ lru' = [lru EXCEPT !.cache = OdPop(@, key)]
                     /\ Advance(th, "put_set", me)
                ELSE /\ lru' = lru
                     /\ Advance(th, "release", [me EXCEPT !.result = "KeyError"])
          \/ /\ me.pc = "put_evict"        \* _remove_key: self.cache.pop(oldest_key, None)
             /\ lru' = [lru EXCEPT !.cache = OdPop(@, me.held)]
             /\ Advance(th, "put_evict_ts", me)
          \/ /\ me.pc = "put_evict_ts"     \* _remove_key: self.timestamps.pop(oldest_key, None)
             /\ lru' = [lru EXCEPT !.timestamps = DictPop(@, me.held)]
             /\ Advance(th, "put_set", me)
          \/ /\ me.pc = "put_set"          \* self.cache[key] = value
             /\ lru' = [lru EXCEPT !.cache = OdSet(@, key, me.value)]
             /\ Advance(th, "put_ts", me)
          \/ /\ me.pc = "put_ts"           \* self.timestamps[key] = time.time()
             /\ lru' = [lru EXCEPT !.timestamps = DictSet(@, key, now)]
             /\ Advance(th, "release", [me EXCEPT !.t = now])
       /\ UNCHANGED <<now, recency, lastPut, hitSince, lastOp, locks,
                      parserVars, optVars, perfVars, roslynVars, hashVars, globalVars>>

\* one statement of LRUCache.clear
ClearStep(th) ==
    LET me == thread[th]
    IN /\ \/ /\ me.pc = "clear"            \* self.cache.clear()
             /\ lru' = [lru EXCEPT !.cache = <<>>]
             /\ Advance(th, "clear_ts", me)
          \/ /\ me.pc = "clear_ts"         \* self.timestamps.clear()
             /\ lru' = [lru EXCEPT !.timestamps = EmptyDict]
             /\ Advance(th, "clear_hits", me)
          \/ /\ me.pc = "clear_hits"       \* self.hits = 0
             /\ lru' = [lru EXCEPT !.hits = 0]
             /\ Advance(th, "clear_misses", me)
          \/ /\ me.pc = "clear_misses"     \* self.misses = 0
             /\ lru' = [lru EXCEPT !.misses = 0]
             /\ Advance(th, "release", me)
       /\ UNCHANGED <<now, recency, lastPut, hitSince, lastOp, locks,
                      parserVars, optVars, perfVars, roslynVars, hashVars, globalVars>>

\* LRUCache.size, and LRUCache.stats in two reads: the size, then the counters
ReadStep(th) ==
    LET me == thread[th]
    IN /\ \/ /\ me.pc = "size"             \* return len(self.cache)
             /\ Advance(th, "release", [me EXCEPT !.result = Len(lru.cache)])
          \/ /\ me.pc = "stats"            \* 'size': len(self.cache)
             /\ Advance(th, "stats_counts", [me EXCEPT !.held = Len(lru.cache)])
          \/ /\ me.pc = "stats_counts"     \* 'hits', 'misses', 'hit_rate'
             /\ Advance(th, "release",
                        [me EXCEPT !.result = [CacheStats(lru) EXCEPT !.size = me.held]])
       /\ UNCHANGED <<cacheVars, locks, parserVars, optVars, perfVars, roslynVars, hashVars, globalVars>>

\* LRUCache(max_size, ttl), shared by threads that have called nothing yet
ThreadsInit ==
    /\ lru \in {NewLRUCache(n, t) : n \in 1..MaxCap, t \in {NoTTL} \cup (0..MaxTTL)}
    /\ now = 0
    /\ recency = <<>>
    /\ lastPut = EmptyDict
    /\ hitSince = {}
    /\ lastOp = InitOp
    /\ ParserIdle
    /\ OptIdle
    /\ PerfIdle
    /\ thread = [th \in Threads |-> IdleThread]
    /\ locks = NoLocks
    /\ RoslynIdle
    /\ HashIdle
    /\ GlobalIdle

ThreadsNext ==
    \/ \E th \in Threads, op \in CacheOps \ {"get", "put"} : Call(th, op, NoKey, None)
    \/ \E th \in Threads, k \in ThreadKeys : Call(th, "get", k, None)
    \/ \E th \in Threads, k \in ThreadKeys, v \in ThreadValues : Call(th, "put", k, v)
    \/ \E th \in Threads : GetStep(th)
    \/ \E th \in Threads : PutStep(th)
    \/ \E th \in Threads : ClearStep(th)
    \/ \E th \in Threads : ReadStep(th)
    \/ \E th \in Threads : ReleaseLock(th)
    \/ Tick

SpecThreads == ThreadsInit /\ [][ThreadsNext]_vars

(***************************************************************************)
(* Claims about the threads of one cache, checked under SpecThreads.       *)
(***************************************************************************)

\* what the operation of thread th leaves of the cache it found, run alone
Sequential(th) ==
    LET me == thread[th]
    IN CASE me.op = "get" -> GetCache(me.pre, me.key, me.t)
         [] me.op = "put" -> PutCache(me.pre, me.key, me.value, me.t)
         [] me.op = "clear" -> ClearCache(me.pre)
         [] OTHER -> me.pre

\* what the operation of thread th returns on the cache it found, run alone
SequentialResult(th) ==
    LET me == thread[th]
    IN CASE me.op = "get" -> GetValue(me.pre, me.key, me.t)
         [] me.op = "size" -> Size(me.pre)
         [] me.op = "stats" -> CacheStats(me.pre)
         [] OTHER -> None

\* the thread is between acquiring and releasing the lock
Inside(th) == thread[th].pc # "idle"

\* C25: under any interleaving of get, put, clear, size and stats calls from
\* several threads on one LRUCache every operation takes effect atomically: one
\* thread at a time is inside an operation, and when an operation has run its
\* body the cache and the returned value are what the operation alone makes of
\* the cache it found, so the outcome is that of the operations in the order
\* in which they got the lock; and the cache never holds more than max_size
\* entries.
C25_OperationsAtomic ==
    /\ Len(lru.cache) <= lru.max_size
    /\ \A th \in Threads :
         /\ Inside(th) => (locks.cache = th /\ \A other \in Threads \ {th} : ~Inside(other))
         /\ thread[th].pc = "release" =>
              /\ lru = Sequential(th)
              /\ thread[th].result = SequentialResult(th)

\* a thread is about to return from a get that hit on a full cache, after
\* the other thread has run an operation
C25_Witness ==
    \E th \in Threads :
        /\ thread[th].pc = "release"
        /\ thread[th].op = "get"
        /\ thread[th].result \in Values
        /\ Len(lru.cache) = lru.max_size
        /\ \E other \in Threads \ {th} : thread[other].ops > 0

(***************************************************************************)
(* SpecConc: the threads of Threads call a function decorated as           *)
(* parse_project is, @performance_monitor over @cached_operation: the      *)
(* wrapper of performance_monitor enters measure_performance, the body is  *)
(* cached_parse, and measure_performance's finally block records the       *)
(* metric and runs _maybe_gc.  The calls go to one optimizer.  A cache     *)
(* operation is two steps, the one that takes the cache's lock and runs    *)
(* the body and the one that gives the lock back; the parse function runs  *)
(* from the step that reaches "parse" to the step that leaves it.  A       *)
(* thread's locals: path, key (cache_key, if a content hash was computed), *)
(* value (what parse_func did), result (what cached_parse returns), held   *)
(* (the counter _maybe_gc read), metrics; invoked (ghost) says that the    *)
(* call ran parse_func.  key, result and invoked stay as they are when the *)
(* call has returned.  The clock stands still.                             *)
(***************************************************************************)
\* cache_key before cached_parse has computed it
NoCacheKey == <<"none", "none">>

\* the lock is given back
Released_StillHeld(name) == locks

\* the end of a with lock block
Released(name) == [locks EXCEPT ![name] = NoThread]

\* the locks thread th holds
HeldBy(th) == {name \in DOMAIN locks : locks[name] = th}

\* the decorated function is called: wrapper of performance_monitor,
\* measure_performance up to its yield, wrapper of cached_operation
CallMeasuredParse(th, file_path) ==
    /\ thread[th].pc = "idle"
    /\ Started < MaxParseCalls
    /\ Advance(th, "check_memory",
               [IdleThread EXCEPT !.op = "cached_parse", !.path = file_path,
                                  !.key = NoCacheKey,
                                  !.ops = thread[th].ops + 1,
                                  !.metrics = NewMetrics("decorator", now)])
    /\ UNCHANGED <<cacheVars, locks, parserVars, optVars, perfVars, roslynVars, hashVars, globalVars>>

\* cached_parse: if self.memory_monitor.get_memory_mb() > max_memory_usage_mb
CheckMemory(th) ==
    /\ thread[th].pc = "check_memory"
    /\ \E mem \in MemoryLevels :
         Advance(th, IF MemoryPressure(mem) THEN "clear_file" ELSE "hash", thread[th])
    /\ UNCHANGED <<cacheVars, locks, parserVars, optVars, perfVars, roslynVars, hashVars, globalVars>>

\* cached_parse: self.file_cache.clear(); self.parse_cache.clear()
ClearCaches(th) ==
    /\ \/ /\ thread[th].pc = "clear_file"
          /\ CanAcquire(locks.file, th)
          /\ locks' = [locks EXCEPT !.file = th]
          /\ file_cache' = ClearCache(file_cache)
          /\ lru' = lru
          /\ Advance(th, "clear_file_release", thread[th])
       \/ /\ thread[th].pc = "clear_file_release"
          /\ locks' = Released("file")
          /\ UNCHANGED <<file_cache, lru>>
          /\ Advance(th, "clear_parse", thread[th])
       \/ /\ thread[th].pc = "clear_parse"
          /\ CanAcquire(locks.cache, th)
          /\ locks' = [locks EXCEPT !.cache = th]
          /\ lru' = ClearCache(lru)
          /\ file_cache' = file_cache
          /\ Advance(th, "clear_parse_release", thread[th])
       \/ /\ thread[th].pc = "clear_parse_release"
          /\ locks' = Released("cache")
          /\ UNCHANGED <<file_cache, lru>>
          /\ Advance(th, "hash", thread[th])
    /\ UNCHANGED <<now, recency, lastPut, hitSince, lastOp, content_hash, call,
                   parserVars, perfVars, roslynVars, hashVars, globalVars>>

\* cached_parse: content_hash = self.get_file_content_hash(file_path); without
\* one parse_func is called directly, with one the cache key is computed
ComputeHash(th) ==
    /\ thread[th].pc = "hash"
    /\ LET hash == content_hash[thread[th].path]
       IN IF hash = None
          THEN Advance(th, "parse", [thread[th] EXCEPT !.invoked = TRUE])
          ELSE Advance(th, "get", [thread[th] EXCEPT !.key = GetCacheKey(thread[th].path, hash)])
    /\ UNCHANGED <<cacheVars, locks, parserVars, optVars, perfVars, roslynVars, hashVars, globalVars>>

\* cached_parse: result = self.parse_cache.get(cache_key); a hit returns it,
\* a miss calls parse_func
Lookup(th) ==
    /\ \/ /\ thread[th].pc = "get"
          /\ CanAcquire(locks.cache, th)
          /\ locks' = [locks EXCEPT !.cache = th]
          /\ lru' = GetCache(lru, thread[th].key, now)
          /\ Advance(th, "get_release",
                     [thread[th] EXCEPT !.result = GetValue(lru, thread[th].key, now)])
       \/ /\ thread[th].pc = "get_release"
          /\ locks' = Released("cache")
          /\ lru' = lru
          /\ IF thread[th].result # None
             THEN Advance(th, "return", thread[th])
             ELSE Advance(th, "parse", [thread[th] EXCEPT !.invoked = TRUE])
    /\ UNCHANGED <<now, recency, lastPut, hitSince, lastOp, parserVars, optVars, perfVars, roslynVars, hashVars, globalVars>>

\* what parse_func makes of the file when it succeeds
ResultOf(file_path) == IF file_path = "a.cs" THEN "r1" ELSE "r2"

\* parse_func(file_path) ends: it returns its result or None, or raises
RunParse(th) ==
    /\ thread[th].pc = "parse"
    /\ \E out \in {ResultOf(thread[th].path), None, "raise"} :
         Advance(th, IF out \in ParseResults /\ thread[th].key # NoCacheKey
                     THEN "put" ELSE "return",
                 [thread[th] EXCEPT !.value = out,
                                    !.result = IF out = "raise" THEN None ELSE out])
    /\ UNCHANGED <<cacheVars, locks, parserVars, optVars, perfVars, roslynVars, hashVars, globalVars>>

\* cached_parse: if result is not None: self.parse_cache.put(cache_key, result)
Store(th) ==
    /\ \/ /\ thread[th].pc = "put"
          /\ CanAcquire(locks.cache, th)
          /\ locks' = [locks EXCEPT !.cache = th]
          /\ lru' = PutCache(lru, thread[th].key, thread[th].result, now)
          /\ Advance(th, "put_release", thread[th])
       \/ /\ thread[th].pc = "put_release"
          /\ locks' = Released("cache")
          /\ lru' = lru
          /\ Advance(th, "return", thread[th])
    /\ UNCHANGED <<now, recency, lastPut, hitSince, lastOp, parserVars, optVars, perfVars, roslynVars, hashVars, globalVars>>

\* cached_parse has returned or raised: the wrapper of performance_monitor
\* finishes the metric, and on an exception measure_performance's except
\* branch finishes it again
Return(th) ==
    /\ thread[th].pc = "return"
    /\ LET m == thread[th].metrics
           raised == thread[th].value = "raise"
           once == IF raised THEN Finish(m, 0, FALSE, "e", now)
                   ELSE Finish(m, 1, TRUE, None, now)
           left == [once EXCEPT !.raised = raised,
                                !.propagated = IF raised THEN "Exception" ELSE None]
       IN Advance(th, "finally",
                  [thread[th] EXCEPT !.metrics = IF raised
                                                 THEN Finish(left, 0, FALSE, "e", now)
                                                 ELSE left])
    /\ UNCHANGED <<cacheVars, locks, parserVars, optVars, perfVars, roslynVars, hashVars, globalVars>>

\* measure_performance's finally block: with self.lock: append and cut
RecordMetric(th) ==
    /\ \/ /\ thread[th].pc = "finally"
          /\ CanAcquire(locks.history, th)
          /\ locks' = [locks EXCEPT !.history = th]
          /\ metrics_history' = Record(metrics_history, thread[th].metrics)
          /\ measured' = measured + 1
          /\ Advance(th, "finally_release", thread[th])
       \/ /\ thread[th].pc = "finally_release"
          /\ locks' = Released("history")
          /\ UNCHANGED <<metrics_history, measured>>
          /\ Advance(th, "gc_read", thread[th])
    /\ UNCHANGED <<cacheVars, operation_count, parserVars, optVars, roslynVars, hashVars, globalVars>>

\* _maybe_gc, which takes no lock: the counter is read, written back one
\* higher, and read again for the test that resets it
MaybeGcStep(th) ==
    /\ \/ /\ thread[th].pc = "gc_read"
          /\ operation_count' = operation_count
          /\ Advance(th, "gc_write", [thread[th] EXCEPT !.held = operation_count])
       \/ /\ thread[th].pc = "gc_write"
          /\ operation_count' = thread[th].held + 1
          /\ Advance(th, "gc_test", thread[th])
       \/ /\ thread[th].pc = "gc_test"
          /\ operation_count' = IF operation_count >= gc_frequency
                                THEN 0 ELSE operation_count
          /\ Advance(th, "idle", [IdleThread EXCEPT !.op = "cached_parse",
                                                    !.ops = thread[th].ops,
                                                    !.key = thread[th].key,
                                                    !.result = thread[th].result,
                                                    !.invoked = thread[th].invoked])
    /\ UNCHANGED <<cacheVars, locks, metrics_history, measured, parserVars, optVars, roslynVars, hashVars, globalVars>>

\* one PerformanceOptimizer and files that stay as they are
ConcInit ==
    /\ OptInit
    /\ lru.ttl = NoTTL
    /\ content_hash["a.cs"] = "h1"
    /\ content_hash["b.cs"] \in {"h1", None}

ConcNext ==
    \/ \E th \in Threads, p \in FilePaths : CallMeasuredParse(th, p)
    \/ \E th \in Threads : CheckMemory(th)
    \/ \E th \in Threads : ClearCaches(th)
    \/ \E th \in Threads : ComputeHash(th)
    \/ \E th \in Threads : Lookup(th)
    \/ \E th \in Threads : RunParse(th)
    \/ \E th \in Threads : Store(th)
    \/ \E th \in Threads : Return(th)
    \/ \E th \in Threads : RecordMetric(th)
    \/ \E th \in Threads : MaybeGcStep(th)

SpecConc == ConcInit /\ [][ConcNext]_vars

(***************************************************************************)
(* Claims about concurrent calls through the optimizer, checked under      *)
(* SpecConc.                                                               *)
(***************************************************************************)

\* C26: no thread holds a cache lock or the optimizer's history lock while the
\* parse function it called is executing: in cached_parse and in
\* measure_performance every lock is taken and given back before the parse
\* function is called or after it has ended.
C26_NoLockAcrossParse ==
    \A th \in Threads : thread[th].pc = "parse" => HeldBy(th) = {}

\* a parse function is executing in one thread, which has looked its key up
\* before, while the other thread is inside an operation of the parse cache
C26_Witness ==
    \E th \in Threads :
        /\ thread[th].pc = "parse"
        /\ thread[th].key # NoCacheKey
        /\ \E other \in Threads \ {th} : locks.cache = other

\* the latest call of thread th has returned
CallReturned(th) == thread[th].pc = "idle" /\ thread[th].ops > 0

\* the entries of parse_cache stored under key
EntriesFor(key) == {i \in 1..Len(lru.cache) : lru.cache[i].key = key}

\* C27: two threads call cached_parse concurrently for the same fingerprint on
\* a cache that does not hold it.  Both may invoke the parse function (the
\* state of C27_Witness is reachable); and whatever the interleaving, once
\* the calls of both threads for that key have returned a result that is not
\* None, parse_cache holds exactly one entry for the key.
C27_OneEntryAfterRace ==
    (/\ \A th \in Threads : CallReturned(th) /\ thread[th].result # None
     /\ \A th \in Threads : thread[th].key = thread["t1"].key
     /\ thread["t1"].key # NoCacheKey)
    => Cardinality(EntriesFor(thread["t1"].key)) = 1

\* both threads have invoked the parse function for the same key and returned
\* its result
C27_Witness ==
    /\ \A th \in Threads :
         /\ CallReturned(th)
         /\ thread[th].invoked
         /\ thread[th].result # None
    /\ thread["t1"].key = thread["t2"].key
    /\ thread["t1"].key # NoCacheKey
    /\ Cardinality(EntriesFor(thread["t1"].key)) = 1

\* the thread has recorded its metric and has not yet left _maybe_gc
InMaybeGc(th) == thread[th].pc \in {"finally_release", "gc_read", "gc_write", "gc_test"}

\* C34: the operation counter goes up by exactly one per measured call and is
\* set back to 0 at every gc_frequency-th call, also when measured calls end
\* at the same time on several threads: once no call is inside _maybe_gc the
\* counter is the number of measured calls since the last collection.
C34_CounterCountsEveryCall ==
    (\A th \in Threads : ~InMaybeGc(th))
    => operation_count = measured % gc_frequency

(***************************************************************************)
(* SpecRoslyn: calls into the Roslyn analyzer, one at a time, through      *)
(* RoslynWrapper.analyze_file, RoslynWrapper.analyze_file_to_json and      *)
(* DotNetParser._parse_with_roslyn.  roslyn.run is what subprocess.run     *)
(* did, roslyn.files the output files that exist ("out" is the output      *)
(* path of the call), roslyn.content what the output file holds,           *)
(* roslyn.error the exception in flight or raised, roslyn.outcome how the  *)
(* call ended: "returned", "raised", or "fallback" when _parse_with_roslyn *)
(* went on to roslyn.target.                                               *)
(***************************************************************************)
RoslynApis == {"analyze_file", "analyze_file_to_json", "_parse_with_roslyn"}

\* what subprocess.run(cmd, capture_output=True, timeout=timeout) can do: the
\* process completes with a return code and a standard output, is killed at
\* the timeout, or cannot be started; and what the process did to the file
\* named by --output before that
AnalyzerRuns ==
    {r \in [kind : {"completed", "timeout", "oserror"}, returncode : {0, 1},
            stdout : {"json", "garbage"},
            writes : {"json", "garbage", "nothing", "removes"}] :
        /\ r.kind # "completed" => (r.returncode = 1 /\ r.stdout = "garbage")
        /\ r.kind = "oserror" => r.writes = "nothing"}

Exc(type, msg) == [type |-> type, msg |-> msg]

\* every exception wrapped as unexpected
Reraise_WrapsAll(e) == Exc("RuntimeError", "unexpected")

\* except Exception as e: the three known classes are raised again as they
\* are, anything else becomes RuntimeError("... unexpected error ...")
Reraise(e) ==
    IF e.type \in {"FileNotFoundError", "TimeoutExpired", "RuntimeError"}
    THEN e
    ELSE Exc("RuntimeError", "unexpected")

\* an output file that is left where it is
UnlinkIfExists_Keeps(files) == files

\* if output_path.exists(): output_path.unlink()
UnlinkIfExists(files) == files \ {"out"}

\* the debug line of analyze_file after from_json evaluates
\* analysis_result.classes.count(), a list method that needs an argument
ClassesCount == Exc("TypeError", "count() takes exactly one argument")

\* RoslynWrapper.analyze_file after subprocess.run: the exception it raises,
\* NoExc when it returns the RoslynAnalysisResult
AnalyzeFile(run) ==
    IF run.kind = "timeout" THEN Exc("TimeoutExpired", "timeout")
    ELSE IF run.kind = "oserror" THEN Reraise(Exc("OSError", "cannot start"))
    ELSE IF run.returncode # 0 THEN Reraise(Exc("RuntimeError", "exit code"))
    ELSE IF run.stdout # "json" THEN Reraise(Exc("RuntimeError", "json output"))
    ELSE Reraise(ClassesCount)

\* RoslynWrapper.analyze_file_to_json after subprocess.run, with the output
\* files that exist then: the exception it raises, NoExc when it returns
\* output_path
AnalyzeFileToJson(run, files) ==
    IF run.kind = "timeout" THEN Exc("TimeoutExpired", "timeout")
    ELSE IF run.kind = "oserror" THEN Reraise(Exc("OSError", "cannot start"))
    ELSE IF run.returncode # 0 THEN Reraise(Exc("RuntimeError", "exit code"))
    ELSE IF "out" \notin files THEN Reraise(Exc("RuntimeError", "no output file"))
    ELSE NoExc

\* what the probe of _verify_analyzer, subprocess.run([analyzer, "--help"],
\* timeout=5), can do: print its help with the word Roslyn, end without it,
\* run into the timeout, or fail to start
ProbeOutcomes == {"answers", "silent", "hangs", "errors"}

\* RoslynWrapper(): _find_analyzer raises FileNotFoundError when no executable
\* is found; _verify_analyzer returns after a probe that answers or hangs and
\* logs a warning after any other one, and raises nothing.  TRUE when the
\* constructor returns a wrapper.
RoslynWrapperConstructed(located, probe) == located

\* ParserCapabilities.availability of get_capabilities()["roslyn"]
RoslynAvailability == parser.roslyn_wrapper

\* DotNetParser._initialize_parsers, the Roslyn part: the wrapper is kept if
\* its constructor returns and stays None if it raises
InitializeParsers(located, probe) ==
    /\ roslyn.pc = "idle"
    /\ roslyn.probe = "none"
    /\ located \/ probe = "errors"    \* nothing to run: the probe is not made
    /\ parser' = [parser EXCEPT !.roslyn_wrapper = RoslynWrapperConstructed(located, probe)]
    /\ roslyn' = [roslyn EXCEPT !.located = located,
                                !.probe = IF located THEN probe ELSE "not made"]
    /\ UNCHANGED <<file_size, parse_cache, pc, req, hybrid, ts_structure,
                   invocations, ret, err, prev>>
    /\ UNCHANGED <<cacheVars, optVars, perfVars, threadVars, hashVars, globalVars>>

\* a call begins.  given says what the caller of analyze_file_to_json passed
\* as output_path: None, the path of a file that exists, or a path with no
\* file; _parse_with_roslyn runs with treesitter_fallback = fallback and
\* with a tree-sitter wrapper or not.
RoslynStart(api, given, fallback, ts) ==
    /\ roslyn.pc \in {"idle", "done"}
    /\ roslyn.probe # "none"
    /\ parser.roslyn_wrapper
    /\ api = "analyze_file_to_json" \/ given = "none"
    /\ api = "_parse_with_roslyn" \/ (~fallback /\ ~ts)
    /\ roslyn' = [NoRoslynCall EXCEPT
                    !.located = roslyn.located, !.probe = roslyn.probe,
                    !.api = api, !.fallback = fallback, !.ts = ts,
                    !.files = IF given = "existing" THEN {"out"} ELSE {},
                    !.content = IF given = "existing" THEN "empty" ELSE "none",
                    !.pc = IF api = "analyze_file" \/ given # "none"
                           THEN "run" ELSE "tmp"]
    /\ UNCHANGED <<cacheVars, parserVars, optVars, perfVars, threadVars, hashVars, globalVars>>

\* _parse_with_roslyn without a wrapper: RuntimeError, raised before the try
ParseWithoutWrapper(fallback, ts) ==
    /\ roslyn.pc \in {"idle", "done"}
    /\ roslyn.probe # "none"
    /\ ~parser.roslyn_wrapper
    /\ roslyn' = [NoRoslynCall EXCEPT
                    !.located = roslyn.located, !.probe = roslyn.probe,
                    !.api = "_parse_with_roslyn", !.fallback = fallback, !.ts = ts,
                    !.error = Exc("RuntimeError", "unavailable"),
                    !.outcome = "raised", !.pc = "done"]
    /\ UNCHANGED <<cacheVars, parserVars, optVars, perfVars, threadVars, hashVars, globalVars>>

\* tempfile.NamedTemporaryFile(delete=False) in _parse_with_roslyn,
\* tempfile.mkstemp in analyze_file_to_json: an empty file is created
CreateTemp ==
    /\ roslyn.pc = "tmp"
    /\ roslyn' = [roslyn EXCEPT !.files = {"out"}, !.content = "empty", !.pc = "run"]
    /\ UNCHANGED <<cacheVars, parserVars, optVars, perfVars, threadVars, hashVars, globalVars>>

\* subprocess.run: the analyzer process runs and ends
RunAnalyzer(run) ==
    /\ roslyn.pc = "run"
    /\ roslyn.api = "analyze_file" => run.writes = "nothing"
    /\ roslyn' = [roslyn EXCEPT
                    !.run = run,
                    !.files = IF run.writes \in {"json", "garbage"} THEN {"out"}
                              ELSE IF run.writes = "removes" THEN {}
                              ELSE @,
                    !.content = IF run.writes \in {"json", "garbage"} THEN run.writes
                                ELSE IF run.writes = "removes" THEN "none"
                                ELSE @,
                    !.pc = "handle"]
    /\ UNCHANGED <<cacheVars, parserVars, optVars, perfVars, threadVars, hashVars, globalVars>>

\* the wrapper method deals with what subprocess.run did and returns or
\* raises; analyze_file_to_json removes the output file before it raises
WrapperReturns ==
    /\ roslyn.pc = "handle"
    /\ LET e == IF roslyn.api = "analyze_file" THEN AnalyzeFile(roslyn.run)
                ELSE AnalyzeFileToJson(roslyn.run, roslyn.files)
           files == IF roslyn.api # "analyze_file" /\ e # NoExc
                    THEN UnlinkIfExists(roslyn.files) ELSE roslyn.files
       IN roslyn' = [roslyn EXCEPT
                       !.error = e,
                       !.files = files,
                       !.content = IF "out" \in files THEN @ ELSE "none",
                       !.pc = IF roslyn.api # "_parse_with_roslyn" THEN "done"
                              ELSE IF e = NoExc THEN "load" ELSE "finally",
                       !.outcome = IF roslyn.api = "_parse_with_roslyn" THEN "none"
                                   ELSE IF e = NoExc THEN "returned" ELSE "raised"]
    /\ UNCHANGED <<cacheVars, parserVars, optVars, perfVars, threadVars, hashVars, globalVars>>

\* _parse_with_roslyn: json.load(f) and _convert_roslyn_result
LoadJson ==
    /\ roslyn.pc = "load"
    /\ roslyn' = [roslyn EXCEPT
                    !.error = IF roslyn.content = "json" THEN NoExc
                              ELSE Exc("JSONDecodeError", "json file"),
                    !.pc = "finally"]
    /\ UNCHANGED <<cacheVars, parserVars, optVars, perfVars, threadVars, hashVars, globalVars>>

\* _parse_with_roslyn's finally block: if tmp_path.exists(): tmp_path.unlink();
\* then the structure is returned or the exception goes on to the handler
Finally ==
    /\ roslyn.pc = "finally"
    /\ roslyn' = [roslyn EXCEPT
                    !.files = UnlinkIfExists(@),
                    !.content = "none",
                    !.pc = IF roslyn.error = NoExc THEN "done" ELSE "except",
                    !.outcome = IF roslyn.error = NoExc THEN "returned" ELSE "none"]
    /\ UNCHANGED <<cacheVars, parserVars, optVars, perfVars, threadVars, hashVars, globalVars>>

\* _parse_with_roslyn's except Exception: with treesitter_fallback the next
\* backend is called, tree-sitter if there is a wrapper and the extractor
\* otherwise; without it the exception is raised again
Except ==
    /\ roslyn.pc = "except"
    /\ roslyn' = [roslyn EXCEPT
                    !.pc = "done",
                    !.outcome = IF roslyn.fallback THEN "fallback" ELSE "raised",
                    !.target = IF ~roslyn.fallback THEN "none"
                               ELSE IF roslyn.ts THEN TREESITTER ELSE EXTRACTOR]
    /\ UNCHANGED <<cacheVars, parserVars, optVars, perfVars, threadVars, hashVars, globalVars>>

RoslynInit ==
    /\ RoslynIdle
    /\ HashIdle
    /\ GlobalIdle
    /\ lru = NewLRUCache(1, NoTTL)
    /\ now = 0
    /\ recency = <<>>
    /\ lastPut = EmptyDict
    /\ hitSince = {}
    /\ lastOp = InitOp
    /\ ParserIdle
    /\ OptIdle
    /\ PerfIdle
    /\ thread = [th \in Threads |-> IdleThread]
    /\ locks = NoLocks

RoslynNext ==
    \/ \E api \in RoslynApis, given \in {"none", "existing", "absent"},
          fallback \in BOOLEAN, ts \in BOOLEAN : RoslynStart(api, given, fallback, ts)
    \/ \E located \in BOOLEAN, probe \in ProbeOutcomes : InitializeParsers(located, probe)
    \/ \E fallback \in BOOLEAN, ts \in BOOLEAN : ParseWithoutWrapper(fallback, ts)
    \/ CreateTemp
    \/ \E run \in AnalyzerRuns : RunAnalyzer(run)
    \/ WrapperReturns
    \/ LoadJson
    \/ Finally
    \/ Except

SpecRoslyn == RoslynInit /\ [][RoslynNext]_vars

(***************************************************************************)
(* Claims about the Roslyn analyzer calls, checked under SpecRoslyn.       *)
(***************************************************************************)

\* which of the three failures the finished analyzer run of the call is:
\* killed at the timeout, ended with a return code other than 0, or ended
\* with code 0 and output that is not JSON
Failure ==
    IF roslyn.run.kind = "timeout" THEN "timeout"
    ELSE IF roslyn.run.kind # "completed" THEN "other"
    ELSE IF roslyn.run.returncode # 0 THEN "exit_code"
    ELSE IF roslyn.api = "analyze_file" /\ roslyn.run.stdout # "json" THEN "bad_json"
    ELSE IF roslyn.api = "_parse_with_roslyn"
            /\ roslyn.run.writes \in {"garbage", "nothing"} THEN "bad_json"
    ELSE "other"

\* the failure an exception of the analyzer call tells of
Diagnosis(e) ==
    IF e.type = "TimeoutExpired" THEN "timeout"
    ELSE IF e.type = "RuntimeError" /\ e.msg = "exit code" THEN "exit_code"
    ELSE IF e.type = "JSONDecodeError" \/ (e.type = "RuntimeError" /\ e.msg = "json output")
    THEN "bad_json"
    ELSE "other"

\* C28: a Roslyn invocation that times out, one that exits with a non-zero
\* code and one whose output is not parseable JSON give three error outcomes
\* that can be told apart: the exception of each tells which of the three
\* happened; and in _parse_with_roslyn with treesitter_fallback each of them
\* ends in the call of the next backend, not in an exception for the caller.
C28_RoslynFailuresDistinctAndFallBack ==
    (roslyn.pc = "done" /\ Failure \in RoslynOutcomes \ {"ok"})
    => /\ Diagnosis(roslyn.error) = Failure
       /\ (roslyn.api = "_parse_with_roslyn" /\ roslyn.fallback)
          => (roslyn.outcome = "fallback" /\ roslyn.target \in {TREESITTER, EXTRACTOR})

\* _parse_with_roslyn has gone on to tree-sitter after an analyzer run with
\* return code 1
C28_Witness ==
    /\ roslyn.pc = "done"
    /\ roslyn.api = "_parse_with_roslyn"
    /\ Failure = "exit_code"
    /\ roslyn.error = Exc("RuntimeError", "exit code")
    /\ roslyn.outcome = "fallback"
    /\ roslyn.target = TREESITTER

\* C29: when _parse_with_roslyn has finished, with a result, with the fallback
\* taken or with an error raised, whatever the analyzer run did, the temporary
\* output file it created does not exist; and when analyze_file_to_json has
\* raised, the output file does not exist.
C29_OutputFileRemoved ==
    roslyn.pc = "done"
    => /\ roslyn.api = "_parse_with_roslyn" => "out" \notin roslyn.files
       /\ (roslyn.api = "analyze_file_to_json" /\ roslyn.outcome = "raised")
          => "out" \notin roslyn.files

\* _parse_with_roslyn has gone on to the next backend after a run that was
\* killed at the timeout and had written part of its output
C29_Witness ==
    /\ roslyn.pc = "done"
    /\ roslyn.api = "_parse_with_roslyn"
    /\ roslyn.run.kind = "timeout"
    /\ roslyn.run.writes = "garbage"
    /\ roslyn.outcome = "fallback"
    /\ "out" \notin roslyn.files

\* C30: when the analyzer process exits with code 0 and its standard output is
\* valid JSON, analyze_file returns the RoslynAnalysisResult built from it and
\* raises no error.
C30_AnalyzeFileReturnsResult ==
    (/\ roslyn.pc = "done"
     /\ roslyn.api = "analyze_file"
     /\ roslyn.run.kind = "completed"
     /\ roslyn.run.returncode = 0
     /\ roslyn.run.stdout = "json")
    => (roslyn.outcome = "returned" /\ roslyn.error = NoExc)

(***************************************************************************)
(* SpecHash: PerformanceOptimizer.get_file_content_hash.  A file is a run  *)
(* of equal bytes with marked offsets where the byte differs, so that      *)
(* files of the sizes the code distinguishes can be told apart byte by     *)
(* byte.                                                                   *)
(***************************************************************************)
window == 4096

large_file_threshold == 1024 * 1024

\* f.seek(off); f.read(n)
Read(file, off, n) ==
    LET len == IF file.len - off < n THEN file.len - off ELSE n
    IN Bytes(IF len < 0 THEN 0 ELSE len,
             {m - off : m \in {x \in file.marks : x >= off /\ x < off + len}})

\* the bytes of a followed by the bytes of b
Concat(a, b) == Bytes(a.len + b.len, a.marks \cup {a.len + m : m \in b.marks})

\* PerformanceOptimizer._get_full_hash: every 4096-byte chunk up to the end
GetFullHash(file) == Md5(Read(file, 0, file.len))

\* PerformanceOptimizer._get_partial_hash
GetPartialHash(file) ==
    LET size == file.len
        first == Read(file, 0, window)
        middle == IF size > 2 * window THEN Read(file, size \div 2, window)
                  ELSE Bytes(0, {})
        last == IF size > 3 * window THEN Read(file, size - window, window)
                ELSE Bytes(0, {})
    IN Md5(Concat(Concat(first, middle), last))

\* PerformanceOptimizer.get_file_content_hash for the file at a path
FileContentHash(file) ==
    IF file = NoFile THEN NoDigest
    ELSE IF file.len > large_file_threshold THEN GetPartialHash(file)
    ELSE GetFullHash(file)

FileSizes32 == {window, large_file_threshold, large_file_threshold + 1,
                large_file_threshold + 2 * window, 2 * large_file_threshold}

\* the offsets at which a file of a size may differ from a run of equal bytes
MarkedOffsets(size) ==
    {m \in {0, window - 1, window, (size \div 2) - 1, size \div 2,
            (size \div 2) + window - 1, (size \div 2) + window,
            size - window - 1, size - window, size - 1} : m >= 0 /\ m < size}

DiskFiles ==
    {NoFile} \cup UNION {{Bytes(size, {})} \cup {Bytes(size, {m}) : m \in MarkedOffsets(size)} :
                         size \in FileSizes32}

\* get_file_content_hash(file_path)
GetFileContentHash(file_path) ==
    /\ file_path \notin disk.done
    /\ disk' = [disk EXCEPT !.hash[file_path] = FileContentHash(disk.files[file_path]),
                            !.done = @ \cup {file_path}]
    /\ UNCHANGED <<cacheVars, parserVars, optVars, perfVars, threadVars, roslynVars, globalVars>>

HashInit ==
    /\ disk \in [files : [FilePaths -> DiskFiles],
                  hash : {[p \in FilePaths |-> NoDigest]},
                  done : {{}}]
    /\ lru = NewLRUCache(1, NoTTL)
    /\ now = 0
    /\ recency = <<>>
    /\ lastPut = EmptyDict
    /\ hitSince = {}
    /\ lastOp = InitOp
    /\ ParserIdle
    /\ OptIdle
    /\ PerfIdle
    /\ ThreadsIdle
    /\ RoslynIdle
    /\ GlobalIdle

HashNext == \E file_path \in FilePaths : GetFileContentHash(file_path)

SpecHash == HashInit /\ [][HashNext]_vars

\* the three windows of a file: its first 4 KB, the 4 KB at its middle and its
\* last 4 KB
Windows(file) ==
    <<Read(file, 0, window), Read(file, file.len \div 2, window),
      Read(file, file.len - window, window)>>

\* C32: a file larger than large_file_threshold is fingerprinted from its
\* first, middle and last 4 KB windows together with its size, so two large
\* files with the same three windows and different sizes get different
\* fingerprints; a file at or below the threshold gets the hash of its whole
\* content.
C32_LargeFileFingerprintHasSize ==
    \A p1 \in disk.done :
        LET f1 == disk.files[p1]
        IN /\ (f1 # NoFile /\ f1.len <= large_file_threshold)
              => disk.hash[p1] = Md5(f1)
           /\ \A p2 \in disk.done :
                LET f2 == disk.files[p2]
                IN (/\ f1.len > large_file_threshold
                    /\ f2.len > large_file_threshold
                    /\ f1.len # f2.len
                    /\ Windows(f1) = Windows(f2))
                   => disk.hash[p1] # disk.hash[p2]

(***************************************************************************)
(* More claims about DotNetParser.parse_file, checked under SpecParser.    *)
(***************************************************************************)

\* the request is not run by _parse_with_hybrid
NonHybrid == req # NoRequest /\ SelectStrategy(req.strategy) # HYBRID

\* C33: within one parse_file request that is not a hybrid one, no backend is
\* invoked more than once, and no backend is invoked after a backend has
\* returned a structure.
C33_NoBackendTwiceNoneAfterSuccess ==
    NonHybrid
    => \A i \in 1..Len(invocations) : \A j \in (i + 1)..Len(invocations) :
          /\ invocations[i].backend # invocations[j].backend
          /\ invocations[i].outcome # "ok"

\* a request under the Roslyn strategy has ended after Roslyn failed and
\* tree-sitter, then invoked, returned a structure
C33_Witness ==
    /\ pc = "DONE"
    /\ NonHybrid
    /\ Len(invocations) = 2
    /\ Failed(invocations[1])
    /\ invocations[2].outcome = "ok"

\* an invocation that ended in an exception
Raises(inv) == inv.outcome \notin {"ok", "none"}

\* C36: with treesitter_fallback = false the failure of a backend goes to the
\* caller of parse_file and no backend is invoked after it for that request,
\* in every strategy, hybrid included.
C36_NoFallbackPropagatesFailure ==
    ~parser.treesitter_fallback
    => \A i \in 1..Len(invocations) :
          Raises(invocations[i])
          => /\ i = Len(invocations)
             /\ pc = "ALL_FAILED"
             /\ err.reasons = <<invocations[i]>>

(***************************************************************************)
(* SpecGlobal: threads calling get_global_optimizer.  An optimizer is      *)
(* known by its number, the count of PerformanceOptimizer() calls up to    *)
(* and including its own; 0 stands for None.                               *)
(***************************************************************************)
\* a lock that anyone may take at any time
LockAvailable_Always(owner) == TRUE

\* threading.Lock: it can be taken when no thread holds it
LockAvailable(owner) == owner = NoThread

\* the thread moves to p with its locals changed to l
GlobalStep(th, p, l) == [singleton EXCEPT !.th[th] = [l EXCEPT !.pc = p]]

\* get_global_optimizer() is called
GetGlobalOptimizer(th) ==
    /\ singleton.th[th].pc = "idle"
    /\ singleton.th[th].calls < MaxGlobalCalls
    /\ singleton' = GlobalStep(th, "test", [singleton.th[th] EXCEPT !.got = 0])
    /\ UNCHANGED <<cacheVars, parserVars, optVars, perfVars, threadVars, roslynVars, hashVars>>

\* if _global_optimizer is None:
FirstTest(th) ==
    /\ singleton.th[th].pc = "test"
    /\ singleton' = GlobalStep(th, IF singleton.optimizer = 0 THEN "acquire" ELSE "return",
                               singleton.th[th])
    /\ UNCHANGED <<cacheVars, parserVars, optVars, perfVars, threadVars, roslynVars, hashVars>>

\* with _optimizer_lock: the thread waits until it can take the lock
AcquireOptimizerLock(th) ==
    /\ singleton.th[th].pc = "acquire"
    /\ LockAvailable(singleton.lock)
    /\ singleton' = [GlobalStep(th, "locked_test", singleton.th[th]) EXCEPT !.lock = th]
    /\ UNCHANGED <<cacheVars, parserVars, optVars, perfVars, threadVars, roslynVars, hashVars>>

\* if _global_optimizer is None: under the lock
SecondTest(th) ==
    /\ singleton.th[th].pc = "locked_test"
    /\ singleton' = GlobalStep(th, IF singleton.optimizer = 0 THEN "construct" ELSE "release",
                               singleton.th[th])
    /\ UNCHANGED <<cacheVars, parserVars, optVars, perfVars, threadVars, roslynVars, hashVars>>

\* PerformanceOptimizer(): a new optimizer is made
ConstructOptimizer(th) ==
    /\ singleton.th[th].pc = "construct"
    /\ singleton' = [GlobalStep(th, "assign",
                                [singleton.th[th] EXCEPT !.made = singleton.constructed + 1])
                     EXCEPT !.constructed = @ + 1]
    /\ UNCHANGED <<cacheVars, parserVars, optVars, perfVars, threadVars, roslynVars, hashVars>>

\* _global_optimizer = the optimizer just made
AssignGlobal(th) ==
    /\ singleton.th[th].pc = "assign"
    /\ singleton' = [GlobalStep(th, "release", singleton.th[th])
                     EXCEPT !.optimizer = singleton.th[th].made]
    /\ UNCHANGED <<cacheVars, parserVars, optVars, perfVars, threadVars, roslynVars, hashVars>>

\* the end of the with block
ReleaseOptimizerLock(th) ==
    /\ singleton.th[th].pc = "release"
    /\ singleton' = [GlobalStep(th, "return", singleton.th[th])
                     EXCEPT !.lock = IF @ = th THEN NoThread ELSE @]
    /\ UNCHANGED <<cacheVars, parserVars, optVars, perfVars, threadVars, roslynVars, hashVars>>

\* return _global_optimizer
ReturnGlobal(th) ==
    /\ singleton.th[th].pc = "return"
    /\ singleton' = GlobalStep(th, "idle",
                               [singleton.th[th] EXCEPT !.got = singleton.optimizer,
                                                        !.calls = @ + 1,
                                                        !.made = 0])
    /\ UNCHANGED <<cacheVars, parserVars, optVars, perfVars, threadVars, roslynVars, hashVars>>

GlobalInit ==
    /\ GlobalIdle
    /\ lru = NewLRUCache(1, NoTTL)
    /\ now = 0
    /\ recency = <<>>
    /\ lastPut = EmptyDict
    /\ hitSince = {}
    /\ lastOp = InitOp
    /\ ParserIdle
    /\ OptIdle
    /\ PerfIdle
    /\ thread = [th \in Threads |-> IdleThread]
    /\ locks = NoLocks
    /\ roslyn = NoRoslynCall
    /\ disk = NoDisk

GlobalNext ==
    \/ \E th \in Threads : GetGlobalOptimizer(th)
    \/ \E th \in Threads : FirstTest(th)
    \/ \E th \in Threads : AcquireOptimizerLock(th)
    \/ \E th \in Threads : SecondTest(th)
    \/ \E th \in Threads : ConstructOptimizer(th)
    \/ \E th \in Threads : AssignGlobal(th)
    \/ \E th \in Threads : ReleaseOptimizerLock(th)
    \/ \E th \in Threads : ReturnGlobal(th)

SpecGlobal == GlobalInit /\ [][GlobalNext]_vars

\* C39: under any interleaving of get_global_optimizer calls made by several
\* threads, one PerformanceOptimizer at most is ever constructed, and every
\* call that has returned has returned that one.
C39_OneGlobalOptimizer ==
    /\ singleton.constructed <= 1
    /\ \A th \in Threads :
          (singleton.th[th].pc = "idle" /\ singleton.th[th].calls > 0)
          => (singleton.th[th].got = 1 /\ singleton.constructed = 1)

\* a thread that had found no optimizer took the lock after another thread
\* and finds, in its second test, the optimizer that one has made; the other
\* thread has returned
C39_Witness ==
    \E th \in Threads : \E o \in Threads :
        /\ singleton.th[th].pc = "locked_test"
        /\ singleton.lock = th
        /\ singleton.optimizer = 1
        /\ singleton.th[o].pc = "idle"
        /\ singleton.th[o].got = 1

\* C31: the Roslyn backend is reported available, and can be selected, only if
\* the analyzer executable was located and answered the probe within the
\* probe's timeout; after a probe that hung or failed it is reported
\* unavailable.
C31_AvailableOnlyIfProbeAnswered ==
    (roslyn.probe # "none" /\ RoslynAvailability)
    => (roslyn.located /\ roslyn.probe = "answers")

====
